---- MODULE Spec2Model ----
(***************************************************************************)
(* GCIR-GMS: sequenced identifier allocation (proposals/services.py) and   *)
(* the creation path that calls it (pre_save handlers in                   *)
(* proposals/admin.py, unique columns in proposals/models.py).             *)
(*                                                                         *)
(* Strings are sequences of one-character strings, "-" included, so that   *)
(* startswith, split('-')[-1], code[1:], int() and the :04d formatting are *)
(* computed character by character as the Python code computes them.       *)
(*                                                                         *)
(* Transactions: select_for_update() locks the rows the query returns      *)
(* until the outermost atomic block ends.  A creation request either runs  *)
(* inside an outer atomic block (the admin add view) or in autocommit mode *)
(* (Model.objects.create from a script, as populate_initial_data.py does); *)
(* in the latter case the allocator's own atomic block is the outermost    *)
(* one and ends when the allocator returns.                                *)
(*                                                                         *)
(* Storage semantics assumed (Django on a row-locking database at READ     *)
(* COMMITTED): a query sees the committed rows and the inserts of its own  *)
(* transaction; a row lock is exclusive and is waited for; an insert of a  *)
(* code that an open transaction has inserted waits for that transaction.  *)
(* The alphabet of the codes has letters, digits and "-"; int() is         *)
(* modelled for these (no whitespace, "+" or "_").                         *)
(*                                                                         *)
(* Spec: concurrent creation requests.  SeqSpec: requests served one after *)
(* the other in autocommit mode, over more partitions and explicit codes.  *)
(* LookupSpec: the same with ids that have no row in the lookup tables.    *)
(* RoleSpec: role assignments (ProposalInvestigator rows and their         *)
(* constraints) and Proposal.clean over proposals created one by one.      *)
(* SaveSpec: records created and then saved again.  CallSpec: the          *)
(* allocator called directly with a year, and serials beyond 9999.         *)
(* TimeoutSpec: Spec with lock waits that end in an error.  DeleteSpec:    *)
(* creations and deletions.  AdminSpec: the add and change pages of the    *)
(* proposal admin with their role-assignment formset.  DirectSpec: the     *)
(* allocators called directly, with and without a creation afterwards.     *)
(* FairSpec: concurrent creations over overlapping sets of locked rows     *)
(* under fair scheduling, lock waits ended by the database included.       *)
(***************************************************************************)
EXTENDS Integers, Sequences, FiniteSets, TLC

\* ------------------------------------------------------------------ bounds
MaxRequests == 3
MaxSeqRequests == 4
MaxLookupRequests == 3
MaxRoleRequests == 2
MaxSaveRequests == 4
MaxCallRequests == 4
MaxTimeoutRequests == 3
MaxDeleteRequests == 3
MaxAdminRequests == 2
MaxAdminAssignments == 2
MaxDirectRequests == 4
MaxFairRequests == 2
MaxAssignments == 3

Requests == 1..MaxRequests

\* ------------------------------------------------------------ characters
DigitChars == <<"0", "1", "2", "3", "4", "5", "6", "7", "8", "9">>

IsDigit(c) == \E i \in 1..10 : DigitChars[i] = c

DigitVal(c) == (CHOOSE i \in 1..10 : DigitChars[i] = c) - 1

RECURSIVE Digits(_)
\* str(n) for n >= 0: the decimal digits of n, no padding
Digits(n) == IF n < 10 THEN <<DigitChars[n + 1]>>
             ELSE Digits(n \div 10) \o <<DigitChars[(n % 10) + 1]>>

RECURSIVE ZFill(_, _)
\* left-pad s with "0" up to width w; longer strings are left as they are
ZFill(s, w) == IF Len(s) >= w THEN s ELSE ZFill(<<"0">> \o s, w)

\* variant: a field of exactly four digits
Format04dFixedWidth(n) == ZFill(Digits(n % 10000), 4)

\* f"{n:04d}": minimum width 4 (sign included), zero padded, never truncated
Format04d(n) == IF n >= 0 THEN ZFill(Digits(n), 4)
                ELSE <<"-">> \o ZFill(Digits(0 - n), 3)

RECURSIVE DigitsValue(_)
DigitsValue(s) == IF s = <<>> THEN 0
                  ELSE 10 * DigitsValue(SubSeq(s, 1, Len(s) - 1)) + DigitVal(s[Len(s)])

AllDigits(s) == s # <<>> /\ \A i \in 1..Len(s) : IsDigit(s[i])

\* int(s): optional sign, then at least one digit, nothing else.
\* ok = FALSE stands for ValueError.
ParseInt(s) ==
    IF AllDigits(s) THEN [ok |-> TRUE, val |-> DigitsValue(s)]
    ELSE IF s # <<>> /\ s[1] = "-" /\ AllDigits(Tail(s))
         THEN [ok |-> TRUE, val |-> 0 - DigitsValue(Tail(s))]
         ELSE [ok |-> FALSE, val |-> 0]

\* s.startswith(p)
StartsWith(s, p) == Len(s) >= Len(p) /\ SubSeq(s, 1, Len(p)) = p

\* s.split('-')[-1]: what follows the last "-" (all of s when it has none)
LastSegment(s) ==
    LET dashes == {i \in 1..Len(s) : s[i] = "-"}
        last == IF dashes = {} THEN 0 ELSE CHOOSE i \in dashes : \A j \in dashes : j <= i
    IN SubSeq(s, last + 1, Len(s))

Max(S) == CHOOSE x \in S : \A y \in S : y <= x

\* ------------------------------------------------------------ lookup tables
\* None for ids is 0 (falsy, as in "if funding_agency_id:"); None for a date
\* or a string is the empty sequence.
NoId == 0
NoDate == <<>>
Blank == <<>>

\* Department rows: id -> code (models.Department, unique code)
DepartmentCode == [i \in {1, 2} |->
    IF i = 1 THEN <<"C", "S">> ELSE <<"M", "E">>]

\* ProjectType rows: id -> code.  Codes are free CharFields: "IND-NSF" is a
\* legal project-type code.
ProjectTypeCode == [i \in {1, 2} |->
    IF i = 1 THEN <<"I", "N", "D">> ELSE <<"I", "N", "D", "-", "N", "S", "F">>]

\* FundingAgency rows: id -> code
FundingAgencyCode == [i \in {1} |-> <<"N", "S", "F">>]

\* datetime.now().year
CurrentYear == 2025

\* variant: the department fetched before the project type
LookupErrorDepartmentFirst(project_type_id, department_id, funding_agency_id) ==
    IF department_id \notin DOMAIN DepartmentCode THEN "Department.DoesNotExist"
    ELSE IF project_type_id \notin DOMAIN ProjectTypeCode THEN "ProjectType.DoesNotExist"
    ELSE IF funding_agency_id # NoId /\ funding_agency_id \notin DOMAIN FundingAgencyCode
         THEN "FundingAgency.DoesNotExist"
         ELSE ""

\* lines 54-63: ProjectType.objects.get, Department.objects.get and, for a
\* truthy funding_agency_id, FundingAgency.objects.get, in this order; the
\* first id without a row raises DoesNotExist.  "" when every lookup succeeds.
LookupError(project_type_id, department_id, funding_agency_id) ==
    IF project_type_id \notin DOMAIN ProjectTypeCode THEN "ProjectType.DoesNotExist"
    ELSE IF department_id \notin DOMAIN DepartmentCode THEN "Department.DoesNotExist"
    ELSE IF funding_agency_id # NoId /\ funding_agency_id \notin DOMAIN FundingAgencyCode
         THEN "FundingAgency.DoesNotExist"
         ELSE ""

\* ------------------------------------------------- services.generate_gcir_code
\* variant: the reference date is looked at before the explicit year
ResolveYearDateFirst(year, application_date) ==
    IF application_date # NoDate THEN application_date[1]
    ELSE IF year # NoId THEN year
         ELSE CurrentYear

\* lines 45-52: explicit year > application_date year > current year
ResolveYear(year, application_date) ==
    IF year # NoId THEN year
    ELSE IF application_date # NoDate THEN application_date[1]
         ELSE CurrentYear

\* variant: the funding agency left out of the code
AgencySuffixOmitted(funding_agency_id) == <<>>

\* lines 58-63
AgencySuffix(funding_agency_id) ==
    IF funding_agency_id # NoId THEN <<"-">> \o FundingAgencyCode[funding_agency_id]
    ELSE <<>>

\* lines 65-66: f"G-{year}-{department.code}-{project_type.code}{agency_code}-"
PatternPrefix(year, department_id, project_type_id, funding_agency_id) ==
    <<"G", "-">> \o Digits(year) \o <<"-">> \o DepartmentCode[department_id]
        \o <<"-">> \o ProjectTypeCode[project_type_id]
        \o AgencySuffix(funding_agency_id) \o <<"-">>

\* variant: a tail that does not parse counts with the digits it has
ParsedSerialsDigitsOnly(codes) ==
    {DigitsValue(SelectSeq(LastSegment(c), IsDigit)) : c \in codes}

\* lines 80-87: the serials of the codes whose tail parses; the others are skipped
ParsedSerials(codes) ==
    {ParseInt(LastSegment(c)).val : c \in {d \in codes : ParseInt(LastSegment(d)).ok}}

\* variant: the serial taken from the number of rows instead of the maximum
NextSerialByCount(codes) == Cardinality(codes) + 1

\* lines 78-91, given the codes of the rows the locked query returned
NextSerial(codes) ==
    IF codes # {}
    THEN IF ParsedSerials(codes) # {} THEN Max(ParsedSerials(codes)) + 1 ELSE 1
    ELSE 1

\* line 94
FormatGcirCode(pattern_prefix, next_serial) == pattern_prefix \o Format04d(next_serial)

\* ------------------------------ services.generate_external_investigator_code
\* lines 125-136: rows without a code are skipped, int(code[1:]) otherwise
ExternalParsedSerials(codes) ==
    {ParseInt(Tail(c)).val : c \in {d \in codes : d # Blank /\ ParseInt(Tail(d)).ok}}

\* variant: the serial taken from the number of codes instead of the maximum
ExternalNextSerialByCount(codes) == Cardinality(codes) + 1

\* lines 123-140
ExternalNextSerial(codes) ==
    IF codes # {}
    THEN IF ExternalParsedSerials(codes) # {} THEN Max(ExternalParsedSerials(codes)) + 1 ELSE 1
    ELSE 1

\* line 143
FormatExternalCode(next_serial) == <<"E">> \o Format04d(next_serial)

\* ------------------------------------------------------------------- state
VARIABLES
    proposals,   \* Proposal table: rows [pk, gcir_code, department_id,
                 \* project_type_id, funding_agency_id, application_date, auto, txn]
    externals,   \* ExternalInvestigator table: rows [pk, code, auto, txn]
    locks,       \* row locks taken by select_for_update: [tbl, pk, holder]
    rq,          \* per creation request: position and model instance
    proposal_investigators,
                 \* ProposalInvestigator table: rows [proposal,
                 \* investigator, external_investigator, role]
    outcome,     \* what the last role-assignment write, validation call or
                 \* admin request returned or raised
    view         \* the proposal page of the admin: the assignments the
                 \* change page was rendered with, whether one of them was
                 \* deleted since, the forms of an add request under way,
                 \* and the formset's pi_count of the last POST

vars == <<proposals, externals, locks, rq, proposal_investigators, outcome, view>>

roleVars == <<proposal_investigators, outcome, view>>

NoOutcome == [op |-> "none", proposal |-> 0, error |-> "", message |-> ""]

NoView ==
    [phase |-> "none", proposal |-> 0, rendered |-> {}, stale |-> FALSE, forms |-> {},
     pi_count |-> 0]

\* A row with txn = 0 is committed; txn = r is an insert of the still open
\* transaction of request r, visible to r only (READ COMMITTED).
Committed == 0

\* The partition key of a proposal: (year, department code, project-type
\* code, funding-agency code or nothing).  External investigators have the
\* unit key.
\* It is read off the fields of an instance or of a row.
ProposalKey(inp) ==
    <<ResolveYear(NoId, inp.application_date),
      DepartmentCode[inp.department_id],
      ProjectTypeCode[inp.project_type_id],
      IF inp.funding_agency_id # NoId THEN FundingAgencyCode[inp.funding_agency_id] ELSE <<>> >>

ExternalKey == <<>>

\* Inputs of the creation requests.  application_date is (year, month, day).
\* Concurrent requests: the CS/IND partition without and with the NSF agency.
ProposalInputs ==
    [department_id : {1}, project_type_id : {1}, funding_agency_id : {NoId, 1},
     application_date : {NoDate}, gcir_code : {Blank}]

ExternalInputs == [code : {Blank}]

\* Requests served one after the other: more partitions (the ME department,
\* the project type IND-NSF, an application date of 2024) and explicitly
\* supplied codes, with a tail that parses and with one that does not.
SeqProposalInputs ==
    ProposalInputs
    \cup
    [department_id : {1}, project_type_id : {2}, funding_agency_id : {NoId},
     application_date : {NoDate}, gcir_code : {Blank}]
    \cup
    [department_id : {2}, project_type_id : {1}, funding_agency_id : {NoId},
     application_date : {NoDate}, gcir_code : {Blank}]
    \cup
    [department_id : {1}, project_type_id : {1}, funding_agency_id : {NoId},
     application_date : {<<2024, 3, 1>>}, gcir_code : {Blank}]
    \cup
    [department_id : {1}, project_type_id : {1}, funding_agency_id : {NoId},
     application_date : {NoDate},
     gcir_code : {<<"G", "-", "2", "0", "2", "5", "-", "C", "S", "-", "I", "N", "D", "-", "0", "0", "0", "7">>,
                  <<"G", "-", "2", "0", "2", "5", "-", "C", "S", "-", "I", "N", "D", "-", "0", "0", "A", "7">>}]
    \cup
    [department_id : {1}, project_type_id : {1}, funding_agency_id : {1},
     application_date : {NoDate},
     gcir_code : {<<"G", "-", "2", "0", "2", "5", "-", "C", "S", "-", "I", "N", "D", "-",
                    "N", "S", "F", "-", "0", "0", "0", "7">>}]

SeqExternalInputs ==
    [code : {Blank, <<"E", "0", "0", "0", "7">>, <<"E", "0", "0", "A", "7">>}]

\* the partition-defining fields of a Proposal instance
Fields(inp) ==
    [department_id |-> inp.department_id, project_type_id |-> inp.project_type_id,
     funding_agency_id |-> inp.funding_agency_id, application_date |-> inp.application_date]

NoFields ==
    [department_id |-> NoId, project_type_id |-> NoId,
     funding_agency_id |-> NoId, application_date |-> NoDate]

\* rq[r]: pc, the kind of record saved, whether an outer atomic block is
\* open, the year argument of the allocator call (NoId for None, which is what
\* the pre_save handler passes), the instance (the pk it came to save() with,
\* NoId for a new one; its fields; the code it came to save() with; its code now; whether that code
\* is the allocator's), next_serial and the exception that ended the request
\* ("" for none)
IdleRequest ==
    [pc |-> "idle", kind |-> "none", atomic |-> FALSE, pk |-> NoId, year |-> NoId, inst |-> NoFields,
     given |-> <<>>, code |-> <<>>, auto |-> FALSE, serial |-> 0, error |-> ""]

Init ==
    /\ proposals = {}
    /\ externals = {}
    /\ locks = {}
    /\ rq = [r \in Requests |-> IdleRequest]
    /\ proposal_investigators = {}
    /\ outcome = NoOutcome
    /\ view = NoView

\* the partition key request r allocates (or supplies a code) for
KeyOf(r) ==
    IF rq[r].kind = "proposal"
    THEN [ProposalKey(rq[r].inst) EXCEPT
             ![1] = ResolveYear(rq[r].year, rq[r].inst.application_date)]
    ELSE ExternalKey

\* pattern_prefix of the allocator call of request r (services.py 65-66);
\* the external-investigator code has the fixed prefix "E" (services.py 143)
PrefixOf(r) ==
    IF rq[r].kind = "proposal"
    THEN PatternPrefix(ResolveYear(rq[r].year, rq[r].inst.application_date),
                       rq[r].inst.department_id, rq[r].inst.project_type_id,
                       rq[r].inst.funding_agency_id)
    ELSE <<"E">>

\* ------------------------------------------------------ storage primitives
\* rows request r can read: committed ones and its own uncommitted inserts
VisibleProposals(r) == {x \in proposals : x.txn = Committed \/ x.txn = r}

VisibleExternals(r) == {x \in externals : x.txn = Committed \/ x.txn = r}

CommittedProposals == {x \in proposals : x.txn = Committed}

CommittedExternals == {x \in externals : x.txn = Committed}

\* Proposal.objects.filter(gcir_code__startswith=pattern_prefix)
MatchingProposals(r, pattern_prefix) ==
    {x \in VisibleProposals(r) : StartsWith(x.gcir_code, pattern_prefix)}

\* the rows the allocator of request r selects for update
Selected(r) ==
    IF rq[r].kind = "proposal"
    THEN {[tbl |-> "proposal", pk |-> x.pk] : x \in MatchingProposals(r, PrefixOf(r))}
    ELSE {[tbl |-> "external", pk |-> x.pk] : x \in VisibleExternals(r)}

SelectedCodes(r) ==
    IF rq[r].kind = "proposal"
    THEN {x.gcir_code : x \in MatchingProposals(r, PrefixOf(r))}
    ELSE {x.code : x \in VisibleExternals(r)}

LockedByOther(r, row) ==
    \E l \in locks : l.tbl = row.tbl /\ l.pk = row.pk /\ l.holder # r

LocksOf(r) == {l \in locks : l.holder = r}

RowLocks(r, rows) == {[tbl |-> x.tbl, pk |-> x.pk, holder |-> r] : x \in rows}

\* leaving "with transaction.atomic()": the outermost block commits and its
\* row locks go; a nested block keeps them for the outer transaction
LeaveAtomic(r, held) == IF rq[r].atomic THEN held ELSE {l \in held : l.holder # r}

\* the allocator's arithmetic and formatting for request r over the codes read
AllocatedSerial(r, codes) ==
    IF rq[r].kind = "proposal" THEN NextSerial(codes) ELSE ExternalNextSerial(codes)

AllocatedCode(r, next_serial) ==
    IF rq[r].kind = "proposal" THEN FormatGcirCode(PrefixOf(r), next_serial)
    ELSE FormatExternalCode(next_serial)

\* ----------------------------------------------------------------- actions
\* requests are interchangeable: they arrive in the order of their numbers
MayArrive(r) == rq[r].pc = "idle" /\ \A q \in DOMAIN rq : q < r => rq[q].pc # "idle"

\* variant: the handler generates a code whether or not one was supplied
ShouldGenerateAlways(pk, code) == pk = NoId

\* variant: the handler generates a code for every instance without one,
\* new or not
ShouldGenerateWhenBlank(pk, code) == code = Blank

\* "instance.pk is None and not instance.gcir_code" (admin.py 450) and
\* "instance.pk is None and not instance.code" (admin.py 472)
ShouldGenerate(pk, code) == pk = NoId /\ code = Blank

\* Proposal creation reaches the pre_save handler (admin.py 437-457) with a
\* new instance (pk is None).  A blank gcir_code enters generate_gcir_code,
\* which resolves the year, fetches the lookups (DoesNotExist ends the
\* request there) and builds pattern_prefix (services.py 45-66); an explicit
\* code goes straight to the insert.
auto_generate_gcir_code(r, inp, atomic) ==
    /\ MayArrive(r)
    /\ rq' = [rq EXCEPT ![r] =
                IF ShouldGenerate(NoId, inp.gcir_code)
                THEN IF LookupError(inp.project_type_id, inp.department_id,
                                    inp.funding_agency_id) # ""
                     THEN [pc |-> "raised", kind |-> "proposal", atomic |-> atomic, pk |-> NoId, year |-> NoId,
                           inst |-> Fields(inp), given |-> inp.gcir_code, code |-> Blank,
                           auto |-> FALSE, serial |-> 0,
                           error |-> LookupError(inp.project_type_id, inp.department_id,
                                                 inp.funding_agency_id)]
                     ELSE [pc |-> "exists", kind |-> "proposal", atomic |-> atomic, pk |-> NoId, year |-> NoId,
                           inst |-> Fields(inp), given |-> inp.gcir_code, code |-> Blank,
                           auto |-> TRUE, serial |-> 0, error |-> ""]
                ELSE [pc |-> "insert", kind |-> "proposal", atomic |-> atomic, pk |-> NoId, year |-> NoId,
                      inst |-> Fields(inp), given |-> inp.gcir_code,
                      code |-> inp.gcir_code, auto |-> FALSE, serial |-> 0, error |-> ""]]
    /\ UNCHANGED <<proposals, externals, locks, roleVars>>

\* ExternalInvestigator creation reaches its pre_save handler (admin.py 461-474)
auto_generate_external_investigator_code(r, inp, atomic) ==
    /\ MayArrive(r)
    /\ rq' = [rq EXCEPT ![r] =
                IF ShouldGenerate(NoId, inp.code)
                THEN [pc |-> "exists", kind |-> "external", atomic |-> atomic, pk |-> NoId, year |-> NoId,
                      inst |-> NoFields, given |-> inp.code, code |-> Blank,
                      auto |-> TRUE, serial |-> 0, error |-> ""]
                ELSE [pc |-> "insert", kind |-> "external", atomic |-> atomic, pk |-> NoId, year |-> NoId,
                      inst |-> NoFields, given |-> inp.code, code |-> inp.code,
                      auto |-> FALSE, serial |-> 0, error |-> ""]]
    /\ UNCHANGED <<proposals, externals, locks, roleVars>>

\* existing.exists() on the select_for_update queryset (services.py 69-78,
\* 90-94 and 114-123, 139-143): SELECT ... LIMIT 1 FOR UPDATE.  With no row
\* there is nothing to lock, next_serial is 1 and the allocator returns.
\* Otherwise the one row returned is locked; which one is not determined.
Exists(r) ==
    /\ rq[r].pc = "exists"
    /\ IF Selected(r) = {}
       THEN /\ rq' = [rq EXCEPT ![r].pc = "insert", ![r].serial = 1,
                                ![r].code = AllocatedCode(r, 1)]
            /\ locks' = LeaveAtomic(r, locks)
       ELSE /\ \E row \in Selected(r) :
                 /\ ~LockedByOther(r, row)
                 /\ locks' = locks \cup RowLocks(r, {row})
            /\ rq' = [rq EXCEPT ![r].pc = "scan"]
    /\ UNCHANGED <<proposals, externals, roleVars>>

\* the loop over the select_for_update queryset (services.py 80-94 and
\* 125-143): every selected row is locked and read, the maximum of the
\* parsed serials is taken, the code is formatted and the allocator returns,
\* leaving its atomic block.
Scan(r) ==
    /\ rq[r].pc = "scan"
    /\ \A row \in Selected(r) : ~LockedByOther(r, row)
    /\ LET next_serial == AllocatedSerial(r, SelectedCodes(r))
       IN rq' = [rq EXCEPT ![r].pc = "insert", ![r].serial = next_serial,
                           ![r].code = AllocatedCode(r, next_serial)]
    /\ locks' = LeaveAtomic(r, locks \cup RowLocks(r, Selected(r)))
    /\ UNCHANGED <<proposals, externals, roleVars>>

\* the codes held by rows of the table of request r
HeldCodes(r, txns) ==
    IF rq[r].kind = "proposal"
    THEN {x.gcir_code : x \in {y \in proposals : y.txn \in txns}}
    ELSE {x.code : x \in {y \in externals : y.txn \in txns}}

\* variant: a column without the unique constraint
UniqueViolationNever(r) == FALSE

\* unique=True on Proposal.gcir_code (models.py 68) and on
\* ExternalInvestigator.code (models.py 47): the insert is refused when a
\* row readable by the request holds the code
UniqueViolation(r) == rq[r].code \in HeldCodes(r, {Committed, r})

\* an insert of the same code by a still open transaction makes the insert wait
InsertWaits(r) == rq[r].code \in HeldCodes(r, DOMAIN rq \ {r})

NewRow(r) ==
    IF rq[r].kind = "proposal"
    THEN [pk |-> r, gcir_code |-> rq[r].code,
          department_id |-> rq[r].inst.department_id,
          project_type_id |-> rq[r].inst.project_type_id,
          funding_agency_id |-> rq[r].inst.funding_agency_id,
          application_date |-> rq[r].inst.application_date,
          auto |-> rq[r].auto, txn |-> IF rq[r].atomic THEN r ELSE Committed]
    ELSE [pk |-> r, code |-> rq[r].code, auto |-> rq[r].auto,
          txn |-> IF rq[r].atomic THEN r ELSE Committed]

\* Model.save() after pre_save: INSERT of the instance.  In autocommit mode
\* the row is committed at once; inside an outer atomic block it stays
\* uncommitted until Commit.
Insert(r) ==
    /\ rq[r].pc = "insert"
    /\ rq[r].pk = NoId
    /\ ~InsertWaits(r)
    /\ ~UniqueViolation(r)
    /\ proposals' = IF rq[r].kind = "proposal" THEN proposals \cup {NewRow(r)} ELSE proposals
    /\ externals' = IF rq[r].kind = "external" THEN externals \cup {NewRow(r)} ELSE externals
    /\ rq' = [rq EXCEPT ![r].pc = IF rq[r].atomic THEN "inserted" ELSE "done"]
    /\ UNCHANGED <<locks, roleVars>>

\* variant: after a refused insert the handler asks the allocator again
InsertFailsRetries(r) ==
    /\ rq[r].pc = "insert"
    /\ rq[r].pk = NoId
    /\ ~InsertWaits(r)
    /\ UniqueViolation(r)
    /\ rq' = [rq EXCEPT ![r].pc = "exists"]
    /\ UNCHANGED <<proposals, externals, locks, roleVars>>

\* IntegrityError from the unique column: the exception leaves every atomic
\* block, so the transaction is rolled back and its locks are released
InsertFails(r) ==
    /\ rq[r].pc = "insert"
    /\ rq[r].pk = NoId
    /\ ~InsertWaits(r)
    /\ UniqueViolation(r)
    /\ rq' = [rq EXCEPT ![r].pc = "failed", ![r].error = "IntegrityError"]
    /\ locks' = locks \ LocksOf(r)
    /\ UNCHANGED <<proposals, externals, roleVars>>

\* the outer atomic block ends normally: the insert becomes visible, the
\* row locks are released
Commit(r) ==
    /\ rq[r].pc = "inserted"
    /\ proposals' = {IF x.txn = r THEN [x EXCEPT !.txn = Committed] ELSE x : x \in proposals}
    /\ externals' = {IF x.txn = r THEN [x EXCEPT !.txn = Committed] ELSE x : x \in externals}
    /\ locks' = locks \ LocksOf(r)
    /\ rq' = [rq EXCEPT ![r].pc = "done"]
    /\ UNCHANGED roleVars

\* the outer atomic block is left by an exception after the code was
\* allocated: rollback, nothing of the request is persisted
Abort(r) ==
    /\ rq[r].pc \in {"insert", "inserted"}
    /\ rq[r].atomic
    /\ proposals' = {x \in proposals : x.txn # r}
    /\ externals' = {x \in externals : x.txn # r}
    /\ locks' = locks \ LocksOf(r)
    /\ rq' = [rq EXCEPT ![r].pc = "aborted"]
    /\ UNCHANGED roleVars

Next ==
    \/ \E r \in DOMAIN rq, inp \in ProposalInputs, atomic \in BOOLEAN :
          auto_generate_gcir_code(r, inp, atomic)
    \/ \E r \in DOMAIN rq, inp \in ExternalInputs, atomic \in BOOLEAN :
          auto_generate_external_investigator_code(r, inp, atomic)
    \/ \E r \in DOMAIN rq : Exists(r)
    \/ \E r \in DOMAIN rq : Scan(r)
    \/ \E r \in DOMAIN rq : Insert(r)
    \/ \E r \in DOMAIN rq : InsertFails(r)
    \/ \E r \in DOMAIN rq : Commit(r)
    \/ \E r \in DOMAIN rq : Abort(r)

Spec == Init /\ [][Next]_vars

\* ------------------------------------------- requests one after the other
\* A script or test creating records one at a time in autocommit mode
\* (Model.objects.create, as in populate_initial_data.py): no outer atomic
\* block, hence no Commit or Abort step.
SeqInit ==
    /\ proposals = {}
    /\ externals = {}
    /\ locks = {}
    /\ rq = [r \in 1..MaxSeqRequests |-> IdleRequest]
    /\ proposal_investigators = {}
    /\ outcome = NoOutcome
    /\ view = NoView

Active(r) == rq[r].pc \in {"exists", "scan", "insert", "inserted"}

Quiescent == \A r \in DOMAIN rq : ~Active(r)

SeqNext ==
    \/ \E r \in DOMAIN rq, inp \in SeqProposalInputs :
          Quiescent /\ auto_generate_gcir_code(r, inp, FALSE)
    \/ \E r \in DOMAIN rq, inp \in SeqExternalInputs :
          Quiescent /\ auto_generate_external_investigator_code(r, inp, FALSE)
    \/ \E r \in DOMAIN rq : Exists(r)
    \/ \E r \in DOMAIN rq : Scan(r)
    \/ \E r \in DOMAIN rq : Insert(r)
    \/ \E r \in DOMAIN rq : InsertFails(r)

SeqSpec == SeqInit /\ [][SeqNext]_vars

\* ------------------------------------------- lock waits that end in an error
\* the allocator of request r waits for a row lock another transaction holds
Blocked(r) ==
    \/ rq[r].pc = "exists" /\ Selected(r) # {}
          /\ \A row \in Selected(r) : LockedByOther(r, row)
    \/ rq[r].pc = "scan" /\ \E row \in Selected(r) : LockedByOther(r, row)

\* variant: a database that never gives up a lock wait
LockTimeoutNever(r) ==
    /\ Blocked(r)
    /\ FALSE
    /\ UNCHANGED vars

\* The database gives up the wait (lock timeout or deadlock victim): the
\* select_for_update query raises OperationalError inside
\* generate_gcir_code / generate_external_investigator_code (services.py
\* 69-80, 114-126).  Neither the allocator nor the handler catches it, so it
\* leaves every atomic block: rollback, locks released, save() not reached.
LockTimeout(r) ==
    /\ Blocked(r)
    /\ rq' = [rq EXCEPT ![r].pc = "failed", ![r].error = "OperationalError"]
    /\ locks' = locks \ LocksOf(r)
    /\ proposals' = {x \in proposals : x.txn # r}
    /\ externals' = {x \in externals : x.txn # r}
    /\ UNCHANGED roleVars

\* concurrent creations of the CS/IND partition and of external investigators
TimeoutProposalInputs ==
    [department_id : {1}, project_type_id : {1}, funding_agency_id : {NoId},
     application_date : {NoDate}, gcir_code : {Blank}]

TimeoutInit ==
    /\ proposals = {}
    /\ externals = {}
    /\ locks = {}
    /\ rq = [r \in 1..MaxTimeoutRequests |-> IdleRequest]
    /\ proposal_investigators = {}
    /\ outcome = NoOutcome
    /\ view = NoView

TimeoutNext ==
    \/ \E r \in DOMAIN rq, inp \in TimeoutProposalInputs, atomic \in BOOLEAN :
          auto_generate_gcir_code(r, inp, atomic)
    \/ \E r \in DOMAIN rq, inp \in ExternalInputs, atomic \in BOOLEAN :
          auto_generate_external_investigator_code(r, inp, atomic)
    \/ \E r \in DOMAIN rq : Exists(r)
    \/ \E r \in DOMAIN rq : Scan(r)
    \/ \E r \in DOMAIN rq : LockTimeout(r)
    \/ \E r \in DOMAIN rq : Insert(r)
    \/ \E r \in DOMAIN rq : InsertFails(r)
    \/ \E r \in DOMAIN rq : Commit(r)
    \/ \E r \in DOMAIN rq : Abort(r)

TimeoutSpec == TimeoutInit /\ [][TimeoutNext]_vars

\* ------------------------------------------- fair scheduling
\* the table of external investigators after populate_initial_data.py
\* (lines 33-47) has run on an empty database: two rows created one after
\* the other without a code
PopulatedExternals ==
    {[pk |-> MaxFairRequests + 1, code |-> FormatExternalCode(1), auto |-> TRUE,
      txn |-> Committed],
     [pk |-> MaxFairRequests + 2, code |-> FormatExternalCode(2), auto |-> TRUE,
      txn |-> Committed]}

\* concurrent creations of external investigators, which all select every
\* row of their table, and of proposals of the CS/IND partition without and
\* with the NSF agency, where the rows the former selects include the rows
\* the latter selects
FairProposalInputs ==
    [department_id : {1}, project_type_id : {1}, funding_agency_id : {NoId, 1},
     application_date : {NoDate}, gcir_code : {Blank}]

FairInit ==
    /\ proposals = {}
    /\ externals = PopulatedExternals
    /\ locks = {}
    /\ rq = [r \in 1..MaxFairRequests |-> IdleRequest]
    /\ proposal_investigators = {}
    /\ outcome = NoOutcome
    /\ view = NoView

FairNext ==
    \/ \E r \in DOMAIN rq, inp \in FairProposalInputs, atomic \in BOOLEAN :
          auto_generate_gcir_code(r, inp, atomic)
    \/ \E r \in DOMAIN rq, inp \in ExternalInputs, atomic \in BOOLEAN :
          auto_generate_external_investigator_code(r, inp, atomic)
    \/ \E r \in DOMAIN rq : Exists(r)
    \/ \E r \in DOMAIN rq : Scan(r)
    \/ \E r \in DOMAIN rq : LockTimeout(r)
    \/ \E r \in DOMAIN rq : Insert(r)
    \/ \E r \in DOMAIN rq : InsertFails(r)
    \/ \E r \in DOMAIN rq : Commit(r)
    \/ \E r \in DOMAIN rq : Abort(r)

\* the loop of request r can lock and read every row it selects (the
\* condition under which Scan takes its step)
CanScan(r) == rq[r].pc = "scan" /\ \A row \in Selected(r) : ~LockedByOther(r, row)

\* The thread of a request is scheduled: a step it can take from some point
\* on is taken in the end (for Scan this is written out with CanScan).  The
\* database ends a lock wait that would not end otherwise.  An exception
\* that leaves the outer block (Abort) may never happen.
FairSpec ==
    FairInit /\ [][FairNext]_vars
        /\ \A r \in 1..MaxFairRequests :
              /\ WF_vars(Exists(r))
              /\ []<>(~CanScan(r)) \/ []<><<Scan(r)>>_vars
              /\ WF_vars(LockTimeout(r))
              /\ WF_vars(Insert(r))
              /\ WF_vars(InsertFails(r))
              /\ WF_vars(Commit(r))

\* ------------------------------------------- deleting records
\* Proposal.delete() (the admin's delete view and action): the row goes, and
\* with it its role assignments (on_delete=CASCADE, models.py 143)
DeleteProposal(row) ==
    /\ row \in CommittedProposals
    /\ proposals' = proposals \ {row}
    /\ locks' = {l \in locks : ~(l.tbl = "proposal" /\ l.pk = row.pk)}
    /\ proposal_investigators' = {x \in proposal_investigators : x.proposal # row.pk}
    /\ view' = IF view.phase = "rendered" /\ view.proposal = row.pk
               THEN [view EXCEPT !.stale = TRUE] ELSE view
    /\ UNCHANGED <<externals, rq, outcome>>

\* ExternalInvestigator.delete(): refused with ProtectedError while a role
\* assignment refers to the row (on_delete=PROTECT, models.py 147)
DeleteExternal(row) ==
    /\ row \in CommittedExternals
    /\ \A x \in proposal_investigators : x.external_investigator # row.pk
    /\ externals' = externals \ {row}
    /\ locks' = {l \in locks : ~(l.tbl = "external" /\ l.pk = row.pk)}
    /\ UNCHANGED <<proposals, rq, roleVars>>

DeleteInit ==
    /\ proposals = {}
    /\ externals = {}
    /\ locks = {}
    /\ rq = [r \in 1..MaxDeleteRequests |-> IdleRequest]
    /\ proposal_investigators = {}
    /\ outcome = NoOutcome
    /\ view = NoView

\* records are created and deleted one after the other in autocommit mode
DeleteNext ==
    \/ \E r \in DOMAIN rq, inp \in TimeoutProposalInputs :
          Quiescent /\ auto_generate_gcir_code(r, inp, FALSE)
    \/ \E r \in DOMAIN rq, inp \in ExternalInputs :
          Quiescent /\ auto_generate_external_investigator_code(r, inp, FALSE)
    \/ \E r \in DOMAIN rq : Exists(r)
    \/ \E r \in DOMAIN rq : Scan(r)
    \/ \E r \in DOMAIN rq : Insert(r)
    \/ \E row \in proposals : Quiescent /\ DeleteProposal(row)
    \/ \E row \in externals : Quiescent /\ DeleteExternal(row)

DeleteSpec == DeleteInit /\ [][DeleteNext]_vars

\* ------------------------------------------- the allocator called directly
\* arguments of a direct call generate_gcir_code(project_type_id,
\* department_id, year, funding_agency_id, application_date), as tests.py
\* makes it: an explicit year (2023) or None, a reference date (in 2024) or
\* None
CallInputs ==
    [department_id : {1}, project_type_id : {1}, funding_agency_id : {NoId},
     year : {NoId, 2023}, application_date : {NoDate, <<2024, 3, 1>>}]

\* creations through the handler: with and without an application date, and
\* with codes supplied by the caller whose serial is the last of four digits
CallProposalInputs ==
    [department_id : {1}, project_type_id : {1}, funding_agency_id : {NoId},
     application_date : {NoDate, <<2024, 3, 1>>},
     gcir_code : {Blank,
                  <<"G", "-", "2", "0", "2", "5", "-", "C", "S", "-", "I", "N", "D", "-",
                    "9", "9", "9", "9">>}]

CallExternalInputs == [code : {Blank, <<"E", "9", "9", "9", "9">>}]

\* generate_gcir_code called by the caller itself (services.py 14-66), who
\* then creates the Proposal with the code returned (tests.py 18-37): the
\* handler finds a code on the instance and the row is inserted with it
generate_gcir_code(r, args) ==
    /\ MayArrive(r)
    /\ rq' = [rq EXCEPT ![r] =
                IF LookupError(args.project_type_id, args.department_id,
                               args.funding_agency_id) # ""
                THEN [pc |-> "raised", kind |-> "proposal", atomic |-> FALSE, pk |-> NoId,
                      year |-> args.year, inst |-> Fields(args), given |-> Blank,
                      code |-> Blank, auto |-> FALSE, serial |-> 0,
                      error |-> LookupError(args.project_type_id, args.department_id,
                                            args.funding_agency_id)]
                ELSE [pc |-> "exists", kind |-> "proposal", atomic |-> FALSE, pk |-> NoId,
                      year |-> args.year, inst |-> Fields(args), given |-> Blank,
                      code |-> Blank, auto |-> TRUE, serial |-> 0, error |-> ""]]
    /\ UNCHANGED <<proposals, externals, locks, roleVars>>

CallInit ==
    /\ proposals = {}
    /\ externals = {}
    /\ locks = {}
    /\ rq = [r \in 1..MaxCallRequests |-> IdleRequest]
    /\ proposal_investigators = {}
    /\ outcome = NoOutcome
    /\ view = NoView

CallNext ==
    \/ \E r \in DOMAIN rq, args \in CallInputs :
          Quiescent /\ generate_gcir_code(r, args)
    \/ \E r \in DOMAIN rq, inp \in CallProposalInputs :
          Quiescent /\ auto_generate_gcir_code(r, inp, FALSE)
    \/ \E r \in DOMAIN rq, inp \in CallExternalInputs :
          Quiescent /\ auto_generate_external_investigator_code(r, inp, FALSE)
    \/ \E r \in DOMAIN rq : Exists(r)
    \/ \E r \in DOMAIN rq : Scan(r)
    \/ \E r \in DOMAIN rq : Insert(r)
    \/ \E r \in DOMAIN rq : InsertFails(r)

CallSpec == CallInit /\ [][CallNext]_vars

\* ------------------------------------------- calls that persist nothing
\* arguments of direct calls as tests.py 22-27 makes them: year 2025, the
\* CS/IND partition without and with the NSF agency
DirectInputs ==
    [department_id : {1}, project_type_id : {1}, funding_agency_id : {NoId, 1},
     year : {2025}, application_date : {NoDate}]

\* generate_external_investigator_code() called by the caller itself
\* (tests.py 304, 317)
generate_external_investigator_code(r) ==
    /\ MayArrive(r)
    /\ rq' = [rq EXCEPT ![r] =
                [pc |-> "exists", kind |-> "external", atomic |-> FALSE, pk |-> NoId,
                 year |-> NoId, inst |-> NoFields, given |-> Blank, code |-> Blank,
                 auto |-> TRUE, serial |-> 0, error |-> ""]]
    /\ UNCHANGED <<proposals, externals, locks, roleVars>>

\* variant: the allocator keeps the serial it returns by writing a row
\* that holds the code
ReturnReserves(r) ==
    /\ rq[r].pc = "insert"
    /\ rq[r].auto
    /\ proposals' = IF rq[r].kind = "proposal" THEN proposals \cup {NewRow(r)} ELSE proposals
    /\ externals' = IF rq[r].kind = "external" THEN externals \cup {NewRow(r)} ELSE externals
    /\ rq' = [rq EXCEPT ![r].pc = "returned"]
    /\ UNCHANGED <<locks, roleVars>>

\* the allocator has returned (services.py 94, 143) and the caller creates
\* no record with the code (tests.py 22-28, 304-305)
Return(r) ==
    /\ rq[r].pc = "insert"
    /\ rq[r].auto
    /\ rq' = [rq EXCEPT ![r].pc = "returned"]
    /\ UNCHANGED <<proposals, externals, locks, roleVars>>

DirectInit ==
    /\ proposals = {}
    /\ externals = {}
    /\ locks = {}
    /\ rq = [r \in 1..MaxDirectRequests |-> IdleRequest]
    /\ proposal_investigators = {}
    /\ outcome = NoOutcome
    /\ view = NoView

\* Calls are made one after the other in autocommit mode; after each the
\* caller either creates the record with the code returned or does not.
DirectNext ==
    \/ \E r \in DOMAIN rq, args \in DirectInputs :
          Quiescent /\ generate_gcir_code(r, args)
    \/ \E r \in DOMAIN rq : Quiescent /\ generate_external_investigator_code(r)
    \/ \E r \in DOMAIN rq : Exists(r)
    \/ \E r \in DOMAIN rq : Scan(r)
    \/ \E r \in DOMAIN rq : Insert(r)
    \/ \E r \in DOMAIN rq : Return(r)

DirectSpec == DirectInit /\ [][DirectNext]_vars

\* ------------------------------------------- saving a persisted record
\* what a caller may have changed on a loaded Proposal before save(): the
\* funding agency (a partition-defining field) and the code, kept or emptied
ResaveProposalInputs(row) ==
    [department_id : {row.department_id}, project_type_id : {row.project_type_id},
     funding_agency_id : {NoId, 1}, application_date : {row.application_date},
     gcir_code : {row.gcir_code, Blank}]

ResaveExternalInputs(row) == [code : {row.code, Blank}]

\* Proposal.save() of a persisted instance reaches the pre_save handler
\* (admin.py 437-457) with its pk set
save_proposal(r, row, inp) ==
    /\ MayArrive(r)
    /\ row \in CommittedProposals
    /\ rq' = [rq EXCEPT ![r] =
                IF ShouldGenerate(row.pk, inp.gcir_code)
                THEN [pc |-> "exists", kind |-> "proposal", atomic |-> FALSE, pk |-> row.pk, year |-> NoId,
                      inst |-> Fields(inp), given |-> inp.gcir_code, code |-> Blank,
                      auto |-> TRUE, serial |-> 0, error |-> ""]
                ELSE [pc |-> "insert", kind |-> "proposal", atomic |-> FALSE, pk |-> row.pk, year |-> NoId,
                      inst |-> Fields(inp), given |-> inp.gcir_code,
                      code |-> inp.gcir_code, auto |-> FALSE, serial |-> 0, error |-> ""]]
    /\ UNCHANGED <<proposals, externals, locks, roleVars>>

\* ExternalInvestigator.save() of a persisted instance (admin.py 461-474)
save_external(r, row, inp) ==
    /\ MayArrive(r)
    /\ row \in CommittedExternals
    /\ rq' = [rq EXCEPT ![r] =
                IF ShouldGenerate(row.pk, inp.code)
                THEN [pc |-> "exists", kind |-> "external", atomic |-> FALSE, pk |-> row.pk, year |-> NoId,
                      inst |-> NoFields, given |-> inp.code, code |-> Blank,
                      auto |-> TRUE, serial |-> 0, error |-> ""]
                ELSE [pc |-> "insert", kind |-> "external", atomic |-> FALSE, pk |-> row.pk, year |-> NoId,
                      inst |-> NoFields, given |-> inp.code, code |-> inp.code,
                      auto |-> FALSE, serial |-> 0, error |-> ""]]
    /\ UNCHANGED <<proposals, externals, locks, roleVars>>

\* the unique column refuses the UPDATE: another row holds the code.  An
\* external investigator without a code is stored with NULL (models.py 47,
\* null=True), which never conflicts; a proposal without one is stored with
\* the empty string (models.py 68), which does.
UpdateConflict(r) ==
    IF rq[r].kind = "proposal"
    THEN \E x \in proposals : x.pk # rq[r].pk /\ x.gcir_code = rq[r].code
    ELSE rq[r].code # Blank /\ \E x \in externals : x.pk # rq[r].pk /\ x.code = rq[r].code

\* Model.save() after pre_save, for an instance with a pk: UPDATE of its row
\* with the fields and the code of the instance
Update(r) ==
    /\ rq[r].pc = "insert"
    /\ rq[r].pk # NoId
    /\ IF UpdateConflict(r)
       THEN /\ rq' = [rq EXCEPT ![r].pc = "failed", ![r].error = "IntegrityError"]
            /\ UNCHANGED <<proposals, externals>>
       ELSE /\ proposals' =
                 IF rq[r].kind = "proposal"
                 THEN {IF x.pk = rq[r].pk
                       THEN [x EXCEPT !.gcir_code = rq[r].code,
                                      !.department_id = rq[r].inst.department_id,
                                      !.project_type_id = rq[r].inst.project_type_id,
                                      !.funding_agency_id = rq[r].inst.funding_agency_id,
                                      !.application_date = rq[r].inst.application_date,
                                      !.auto = (x.auto /\ x.gcir_code = rq[r].code)]
                       ELSE x : x \in proposals}
                 ELSE proposals
            /\ externals' =
                 IF rq[r].kind = "external"
                 THEN {IF x.pk = rq[r].pk
                       THEN [x EXCEPT !.code = rq[r].code,
                                      !.auto = (x.auto /\ x.code = rq[r].code)]
                       ELSE x : x \in externals}
                 ELSE externals
            /\ rq' = [rq EXCEPT ![r].pc = "done"]
    /\ UNCHANGED <<locks, roleVars>>

\* creation inputs: the CS/IND partitions of this year and of 2024, external
\* investigators without a code and with an explicit one
SaveProposalInputs ==
    [department_id : {1}, project_type_id : {1}, funding_agency_id : {NoId, 1},
     application_date : {NoDate, <<2024, 3, 1>>}, gcir_code : {Blank}]

SaveExternalInputs == [code : {Blank, <<"E", "0", "0", "0", "7">>}]

SaveInit ==
    /\ proposals = {}
    /\ externals = {}
    /\ locks = {}
    /\ rq = [r \in 1..MaxSaveRequests |-> IdleRequest]
    /\ proposal_investigators = {}
    /\ outcome = NoOutcome
    /\ view = NoView

\* records are created and saved again one after the other in autocommit mode
SaveNext ==
    \/ \E r \in DOMAIN rq, inp \in SaveProposalInputs :
          Quiescent /\ auto_generate_gcir_code(r, inp, FALSE)
    \/ \E r \in DOMAIN rq, inp \in SaveExternalInputs :
          Quiescent /\ auto_generate_external_investigator_code(r, inp, FALSE)
    \/ \E r \in DOMAIN rq, row \in proposals : \E inp \in ResaveProposalInputs(row) :
          Quiescent /\ save_proposal(r, row, inp)
    \/ \E r \in DOMAIN rq, row \in externals : \E inp \in ResaveExternalInputs(row) :
          Quiescent /\ save_external(r, row, inp)
    \/ \E r \in DOMAIN rq : Exists(r)
    \/ \E r \in DOMAIN rq : Scan(r)
    \/ \E r \in DOMAIN rq : Insert(r)
    \/ \E r \in DOMAIN rq : InsertFails(r)
    \/ \E r \in DOMAIN rq : Update(r)

SaveSpec == SaveInit /\ [][SaveNext]_vars

\* -------------------------------------------------------- role assignments
\* Investigator rows (internal staff): ids
InvestigatorIds == {1, 2}

\* ProposalInvestigator.ROLE_CHOICES (models.py 139-142)
Roles == {"PI", "CO_PI"}

\* the two messages of Proposal.clean (models.py 129 and 133)
NoPIMessage ==
    "Proposal must have exactly one Principal Investigator (PI); only one Principal Investigator is allowed."

SeveralPIsMessage ==
    "Proposal must have exactly one Principal Investigator (PI); only one Principal Investigator is allowed."

Passed == [error |-> "", message |-> ""]

\* self.proposal_investigators.filter(role='PI').count() (models.py 125)
PICount(pk, rows) == Cardinality({x \in rows : x.proposal = pk /\ x.role = "PI"})

\* variant: only the missing PI is reported
ProposalCleanNoUpperBound(pk, rows) ==
    IF pk = NoId THEN Passed
    ELSE IF PICount(pk, rows) = 0
         THEN [error |-> "ValidationError", message |-> NoPIMessage]
         ELSE Passed

\* variant: the PIs are counted for an instance without a pk as well
ProposalCleanCountsUnsaved(pk, rows) ==
    IF PICount(pk, rows) = 0
    THEN [error |-> "ValidationError", message |-> NoPIMessage]
    ELSE IF PICount(pk, rows) > 1
         THEN [error |-> "ValidationError", message |-> SeveralPIsMessage]
         ELSE Passed

\* Proposal.clean (models.py 114-136) of an instance with primary key pk
\* (NoId: not saved yet) over the ProposalInvestigator rows
ProposalClean(pk, rows) ==
    IF pk = NoId THEN Passed
    ELSE IF PICount(pk, rows) = 0
         THEN [error |-> "ValidationError", message |-> NoPIMessage]
         ELSE IF PICount(pk, rows) > 1
              THEN [error |-> "ValidationError", message |-> SeveralPIsMessage]
              ELSE Passed

\* variant: the constraint only refuses a row with both references
EitherInternalOrExternalNotBoth(row) ==
    ~(row.investigator # NoId /\ row.external_investigator # NoId)

\* CheckConstraint either_internal_or_external_investigator (models.py 154-160)
EitherInternalOrExternal(row) ==
    \/ row.investigator # NoId /\ row.external_investigator = NoId
    \/ row.investigator = NoId /\ row.external_investigator # NoId

\* variant: the role is part of the unique key
UniqueInternalInvestigatorPerRole(row, rows) ==
    row.investigator # NoId
        => ~\E x \in rows : /\ x.proposal = row.proposal
                              /\ x.investigator = row.investigator
                              /\ x.role = row.role

\* UniqueConstraint unique_internal_investigator_per_proposal (models.py
\* 162-166): (proposal, investigator) where investigator is not null
UniqueInternalInvestigator(row, rows) ==
    row.investigator # NoId
        => ~\E x \in rows : x.proposal = row.proposal /\ x.investigator = row.investigator

\* UniqueConstraint unique_external_investigator_per_proposal (models.py
\* 168-172)
UniqueExternalInvestigator(row, rows) ==
    row.external_investigator # NoId
        => ~\E x \in rows : /\ x.proposal = row.proposal
                              /\ x.external_investigator = row.external_investigator

\* variant: the table also refuses a second PI of a proposal
ViolatedConstraintsWithPIRule(row, rows) ==
    (IF EitherInternalOrExternal(row) THEN {}
     ELSE {"either_internal_or_external_investigator"})
    \cup
    (IF UniqueInternalInvestigator(row, rows) THEN {}
     ELSE {"unique_internal_investigator_per_proposal"})
    \cup
    (IF UniqueExternalInvestigator(row, rows) THEN {}
     ELSE {"unique_external_investigator_per_proposal"})
    \cup
    (IF row.role = "PI" /\ PICount(row.proposal, rows) >= 1
     THEN {"one_pi_per_proposal"} ELSE {})

\* the constraints an insert of row would violate
ViolatedConstraints(row, rows) ==
    (IF EitherInternalOrExternal(row) THEN {}
     ELSE {"either_internal_or_external_investigator"})
    \cup
    (IF UniqueInternalInvestigator(row, rows) THEN {}
     ELSE {"unique_internal_investigator_per_proposal"})
    \cup
    (IF UniqueExternalInvestigator(row, rows) THEN {}
     ELSE {"unique_external_investigator_per_proposal"})

\* ProposalInvestigator.objects.create(proposal=, investigator=,
\* external_investigator=, role=): the insert is refused with IntegrityError
\* when it violates a constraint of the table (which one is reported when
\* several are violated is up to the database).  The constraints leave no
\* two rows with the same proposal, investigator, external_investigator and
\* role, so a row is identified by these fields.
CreateProposalInvestigator(p, investigator, external_investigator, role) ==
    /\ p \in {x.pk : x \in CommittedProposals}
    /\ investigator \in {NoId} \cup InvestigatorIds
    /\ external_investigator \in {NoId} \cup {x.pk : x \in CommittedExternals}
    /\ Cardinality(proposal_investigators) < MaxAssignments
    /\ LET row == [proposal |-> p, investigator |-> investigator,
                   external_investigator |-> external_investigator, role |-> role]
       IN IF ViolatedConstraints(row, proposal_investigators) = {}
          THEN /\ proposal_investigators' = proposal_investigators \cup {row}
               /\ outcome' = [op |-> "create", proposal |-> p, error |-> "", message |-> ""]
          ELSE /\ \E name \in ViolatedConstraints(row, proposal_investigators) :
                     outcome' = [op |-> "create", proposal |-> p,
                                 error |-> "IntegrityError", message |-> name]
               /\ UNCHANGED proposal_investigators
    /\ UNCHANGED <<proposals, externals, locks, rq, view>>

\* ProposalInvestigator.delete() of one row.  A change page rendered with the
\* row now carries the id of a row that is gone.
DeleteProposalInvestigator(row) ==
    /\ row \in proposal_investigators
    /\ proposal_investigators' = proposal_investigators \ {row}
    /\ outcome' = [op |-> "delete", proposal |-> row.proposal, error |-> "", message |-> ""]
    /\ view' = IF view.phase = "rendered" /\ row \in view.rendered
               THEN [view EXCEPT !.stale = TRUE] ELSE view
    /\ UNCHANGED <<proposals, externals, locks, rq>>

\* variant: a validation that finds several PIs keeps none of them
CleanRepairs(pk) ==
    /\ pk \in {NoId} \cup {x.pk : x \in CommittedProposals}
    /\ outcome' = [op |-> "clean", proposal |-> pk,
                   error |-> ProposalClean(pk, proposal_investigators).error,
                   message |-> ProposalClean(pk, proposal_investigators).message]
    /\ proposal_investigators'
         = IF PICount(pk, proposal_investigators) > 1
           THEN {x \in proposal_investigators : ~(x.proposal = pk /\ x.role = "PI")}
           ELSE proposal_investigators
    /\ UNCHANGED <<proposals, externals, locks, rq, view>>

\* proposal.clean() on an instance that was not saved (pk = NoId) or on a
\* persisted proposal
Clean(pk) ==
    /\ pk \in {NoId} \cup {x.pk : x \in CommittedProposals}
    /\ outcome' = [op |-> "clean", proposal |-> pk,
                   error |-> ProposalClean(pk, proposal_investigators).error,
                   message |-> ProposalClean(pk, proposal_investigators).message]
    /\ UNCHANGED <<proposals, externals, locks, rq, proposal_investigators, view>>

RoleInit ==
    /\ proposals = {}
    /\ externals = {}
    /\ locks = {}
    /\ rq = [r \in 1..MaxRoleRequests |-> IdleRequest]
    /\ proposal_investigators = {}
    /\ outcome = NoOutcome
    /\ view = NoView

\* proposals and external investigators are created one after the other in
\* autocommit mode; role assignments are written and proposals validated
\* in between
RoleNext ==
    \/ \E r \in DOMAIN rq, inp \in ProposalInputs :
          Quiescent /\ auto_generate_gcir_code(r, inp, FALSE)
    \/ \E r \in DOMAIN rq, inp \in ExternalInputs :
          Quiescent /\ auto_generate_external_investigator_code(r, inp, FALSE)
    \/ \E r \in DOMAIN rq : Exists(r)
    \/ \E r \in DOMAIN rq : Scan(r)
    \/ \E r \in DOMAIN rq : Insert(r)
    \/ \E p \in DOMAIN rq, investigator \in {NoId} \cup InvestigatorIds,
           external_investigator \in {NoId} \cup DOMAIN rq, role \in Roles :
          CreateProposalInvestigator(p, investigator, external_investigator, role)
    \/ \E row \in proposal_investigators : DeleteProposalInvestigator(row)
    \/ \E pk \in {NoId} \cup DOMAIN rq : Clean(pk)

RoleSpec == RoleInit /\ [][RoleNext]_vars

\* ------------------------------------------- the proposal pages of the admin
\* ProposalAdmin with its inline ProposalInvestigatorInline (admin.py
\* 291-297, 324-410).  The change page is rendered with one form per
\* assignment of the proposal (the initial forms) and empty extra forms; the
\* POST carries the initial forms, each with its row id, its role and its
\* DELETE box, and the extra forms that were filled in.  The whole request
\* runs in one transaction.
NoRow == [proposal |-> NoId, investigator |-> NoId, external_investigator |-> NoId, role |-> ""]

\* the initial forms of a page rendered with rows, as the user left them:
\* each with a role chosen, or with its DELETE box ticked and its role as
\* rendered
InitialFormSets(rows) ==
    {{[initial |-> TRUE, row |-> x, investigator |-> x.investigator,
       external_investigator |-> x.external_investigator,
       role |-> IF c[x] = "DELETE" THEN x.role ELSE c[x],
       DELETE |-> (c[x] = "DELETE")] : x \in rows} :
        c \in [rows -> Roles \cup {"DELETE"}]}

\* an extra form that was filled in
NewForms ==
    [initial : {FALSE}, row : {NoRow}, investigator : {NoId} \cup InvestigatorIds,
     external_investigator : {NoId} \cup {x.pk : x \in CommittedExternals},
     role : Roles, DELETE : {FALSE}]

\* ProposalInvestigatorInline.extra (admin.py 295): the extra forms of a page
extra == 1

\* the sets of at most n filled-in extra forms
RECURSIVE NewFormSets(_)
NewFormSets(n) ==
    IF n = 0 THEN {{}}
    ELSE NewFormSets(n - 1) \cup {S \cup {f} : S \in NewFormSets(n - 1), f \in NewForms}

\* ProposalInvestigatorForm.clean (admin.py 60-77)
ProposalInvestigatorFormClean(form) ==
    IF form.investigator = NoId /\ form.external_investigator = NoId
    THEN "You must select either an Internal Investigator or an External Investigator."
    ELSE IF form.investigator # NoId /\ form.external_investigator # NoId
         THEN "You cannot select both an Internal Investigator and an External Investigator. Please choose one."
         ELSE ""

\* pi_count of ProposalInvestigatorInlineFormSet.clean (admin.py 87-96)
FormsetPICount(forms) == Cardinality({f \in forms : ~f.DELETE /\ f.role = "PI"})

\* ProposalInvestigatorInlineFormSet.clean (admin.py 83-102)
ProposalInvestigatorInlineFormSetClean(forms) ==
    IF FormsetPICount(forms) # 1
    THEN "Each proposal must have exactly one Principal Investigator (PI). Please add exactly one PI in the Investigators section."
    ELSE ""

\* formset.save() (admin.py 383), first part: the rows of the initial forms
\* marked DELETE are deleted, the others are updated with the role of their
\* form
FormsetSaveExisting(rows, forms) ==
    (rows \ {f.row : f \in {g \in forms : g.initial}})
    \cup {[f.row EXCEPT !.role = f.role] : f \in {g \in forms : g.initial /\ ~g.DELETE}}

\* second part: one row per extra form
FormsetNewObjects(pk, forms) ==
    {[proposal |-> pk, investigator |-> f.investigator,
      external_investigator |-> f.external_investigator, role |-> f.role] :
        f \in {g \in forms : ~g.initial}}

\* an insert of formset.save() is refused by a constraint of the table
FormsetSaveRefused(pk, rows, forms) ==
    \E n \in FormsetNewObjects(pk, forms) :
        ViolatedConstraints(n, FormsetSaveExisting(rows, forms)
                               \cup (FormsetNewObjects(pk, forms) \ {n})) # {}

\* variant: the hook undoes the batch when the PI count is not 1
save_formset_corrects(pk, rows, forms) ==
    LET saved == FormsetSaveExisting(rows, forms) \cup FormsetNewObjects(pk, forms)
        pi_count == PICount(pk, saved)
    IN [rows |-> IF pi_count = 1 THEN saved ELSE rows,
        message |-> IF pi_count = 0 THEN "warning"
                    ELSE IF pi_count > 1 THEN "error" ELSE "success"]

\* ProposalAdmin.save_formset (admin.py 374-410) when no insert is refused:
\* formset.save(), then the PIs of the proposal are counted over the table
\* and a message of level warning, error or success is issued
save_formset(pk, rows, forms) ==
    LET saved == FormsetSaveExisting(rows, forms) \cup FormsetNewObjects(pk, forms)
        pi_count == PICount(pk, saved)
    IN [rows |-> saved,
        message |-> IF pi_count = 0 THEN "warning"
                    ELSE IF pi_count > 1 THEN "error" ELSE "success"]

\* variant: the proposal is validated over the assignments as the submitted
\* batch would leave them
ValidationMessageAfterBatch(pk, rows, stale, forms) ==
    IF ProposalClean(pk, save_formset(pk, rows, forms).rows).error # ""
    THEN ProposalClean(pk, save_formset(pk, rows, forms).rows).message
    ELSE IF stale THEN "Select a valid choice. That choice is not one of the available choices."
    ELSE IF \E f \in forms : ~f.DELETE /\ ProposalInvestigatorFormClean(f) # ""
         THEN ProposalInvestigatorFormClean(
                  CHOOSE f \in forms : ~f.DELETE /\ ProposalInvestigatorFormClean(f) # "")
         ELSE ProposalInvestigatorInlineFormSetClean(forms)

\* Validation of the POST before anything is saved: the proposal form calls
\* Proposal.clean on the instance (pk = NoId on the add page), every form
\* that is not marked for deletion is cleaned, an initial form whose row is
\* gone is invalid, and the formset's clean runs.  The first message found
\* stands for the errors shown; "" when the POST is valid.
ValidationMessage(pk, rows, stale, forms) ==
    IF ProposalClean(pk, rows).error # "" THEN ProposalClean(pk, rows).message
    ELSE IF stale THEN "Select a valid choice. That choice is not one of the available choices."
    ELSE IF \E f \in forms : ~f.DELETE /\ ProposalInvestigatorFormClean(f) # ""
         THEN ProposalInvestigatorFormClean(
                  CHOOSE f \in forms : ~f.DELETE /\ ProposalInvestigatorFormClean(f) # "")
         ELSE ProposalInvestigatorInlineFormSetClean(forms)

\* GET of the change page of proposal pk
RenderChangeForm(pk) ==
    /\ pk \in {x.pk : x \in CommittedProposals}
    /\ view.phase # "adding"
    /\ view' = [phase |-> "rendered", proposal |-> pk,
                rendered |-> {x \in proposal_investigators : x.proposal = pk},
                stale |-> FALSE, forms |-> {}, pi_count |-> 0]
    /\ outcome' = [op |-> "render", proposal |-> pk, error |-> "", message |-> ""]
    /\ UNCHANGED <<proposals, externals, locks, rq, proposal_investigators>>

\* POST of the change page.  Invalid: the page is shown again with the
\* errors and nothing is saved.  Valid: save_model (admin.py 369-372; the
\* proposal has a pk, so its code is left alone and its row is rewritten
\* with the same values), then save_formset; an IntegrityError of an insert
\* rolls the request back.  The forms are the initial forms of the page as
\* rendered together with the extra forms filled in.
SubmitChangeForm(forms) ==
    /\ view.phase = "rendered"
    /\ Cardinality(save_formset(view.proposal, proposal_investigators, forms).rows)
          <= MaxAdminAssignments
    /\ LET message == ValidationMessage(view.proposal, proposal_investigators,
                                        view.stale, forms)
       IN IF message # ""
          THEN /\ outcome' = [op |-> "change", proposal |-> view.proposal,
                              error |-> "ValidationError", message |-> message]
               /\ view' = [NoView EXCEPT !.phase = "rejected", !.proposal = view.proposal,
                                      !.pi_count = FormsetPICount(forms)]
               /\ UNCHANGED proposal_investigators
          ELSE IF FormsetSaveRefused(view.proposal, proposal_investigators, forms)
               THEN /\ outcome' = [op |-> "change", proposal |-> view.proposal,
                                   error |-> "IntegrityError", message |-> ""]
                    /\ view' = [NoView EXCEPT !.phase = "failed", !.proposal = view.proposal,
                                      !.pi_count = FormsetPICount(forms)]
                    /\ UNCHANGED proposal_investigators
               ELSE /\ proposal_investigators'
                         = save_formset(view.proposal, proposal_investigators, forms).rows
                    /\ outcome' = [op |-> "change", proposal |-> view.proposal, error |-> "",
                                   message |-> save_formset(view.proposal,
                                                            proposal_investigators, forms).message]
                    /\ view' = [NoView EXCEPT !.phase = "saved", !.proposal = view.proposal,
                                      !.pi_count = FormsetPICount(forms)]
    /\ UNCHANGED <<proposals, externals, locks, rq>>

\* POST of the add page, up to the validation: the instance has no pk yet
\* and there are no initial forms.  A valid POST goes on to save_model.
SubmitAddForm(forms) ==
    /\ view.phase # "adding"
    /\ \E r \in DOMAIN rq : MayArrive(r)
    /\ forms \in NewFormSets(extra)
    /\ LET message == ValidationMessage(NoId, proposal_investigators, FALSE, forms)
       IN IF message # ""
          THEN /\ outcome' = [op |-> "add", proposal |-> NoId,
                              error |-> "ValidationError", message |-> message]
               /\ view' = [NoView EXCEPT !.phase = "rejected",
                                          !.pi_count = FormsetPICount(forms)]
          ELSE /\ view' = [NoView EXCEPT !.phase = "adding", !.forms = forms,
                                          !.pi_count = FormsetPICount(forms)]
               /\ UNCHANGED outcome
    /\ UNCHANGED <<proposals, externals, locks, rq, proposal_investigators>>

\* variant: the role assignments are written as soon as the code is allocated
SaveRelatedBeforeInsert(r) ==
    /\ view.phase = "adding"
    /\ rq[r].pc = "insert"
    /\ rq[r].kind = "proposal"
    /\ Cardinality(save_formset(r, proposal_investigators, view.forms).rows)
          <= MaxAdminAssignments
    /\ proposal_investigators' = save_formset(r, proposal_investigators, view.forms).rows
    /\ rq' = [rq EXCEPT ![r].pc = "done"]
    /\ outcome' = [op |-> "add", proposal |-> r, error |-> "",
                   message |-> save_formset(r, proposal_investigators, view.forms).message]
    /\ view' = [view EXCEPT !.phase = "saved", !.proposal = r, !.forms = {}]
    /\ locks' = locks \ LocksOf(r)
    /\ UNCHANGED <<proposals, externals>>

\* the add page after save_model inserted the proposal (pk r): save_formset
\* with the forms of the POST, then the request's transaction ends.  An
\* IntegrityError of an insert rolls back the proposal as well.
SaveRelated(r) ==
    /\ view.phase = "adding"
    /\ rq[r].pc = "inserted"
    /\ rq[r].kind = "proposal"
    /\ Cardinality(save_formset(r, proposal_investigators, view.forms).rows)
          <= MaxAdminAssignments
    /\ IF FormsetSaveRefused(r, proposal_investigators, view.forms)
       THEN /\ proposals' = {x \in proposals : x.txn # r}
            /\ rq' = [rq EXCEPT ![r].pc = "aborted", ![r].error = "IntegrityError"]
            /\ outcome' = [op |-> "add", proposal |-> r,
                           error |-> "IntegrityError", message |-> ""]
            /\ view' = [view EXCEPT !.phase = "failed", !.proposal = r, !.forms = {}]
            /\ UNCHANGED proposal_investigators
       ELSE /\ proposal_investigators' = save_formset(r, proposal_investigators, view.forms).rows
            /\ proposals' = {IF x.txn = r THEN [x EXCEPT !.txn = Committed] ELSE x :
                                x \in proposals}
            /\ rq' = [rq EXCEPT ![r].pc = "done"]
            /\ outcome' = [op |-> "add", proposal |-> r, error |-> "",
                           message |-> save_formset(r, proposal_investigators,
                                                    view.forms).message]
            /\ view' = [view EXCEPT !.phase = "saved", !.proposal = r, !.forms = {}]
    /\ locks' = locks \ LocksOf(r)
    /\ UNCHANGED externals

AdminInit ==
    /\ proposals = {}
    /\ externals = {}
    /\ locks = {}
    /\ rq = [r \in 1..MaxAdminRequests |-> IdleRequest]
    /\ proposal_investigators = {}
    /\ outcome = NoOutcome
    /\ view = NoView

\* Requests are served one after the other.  Proposals are created on the
\* add page; assignments of internal investigators are also written one at
\* a time (ProposalInvestigatorAdmin), also between the GET and the POST of
\* a change page.
AdminNext ==
    \/ \E forms \in NewFormSets(extra) : Quiescent /\ SubmitAddForm(forms)
    \/ \E r \in DOMAIN rq, inp \in TimeoutProposalInputs :
          Quiescent /\ view.phase = "adding" /\ auto_generate_gcir_code(r, inp, TRUE)
    \/ \E r \in DOMAIN rq : Exists(r)
    \/ \E r \in DOMAIN rq : Scan(r)
    \/ \E r \in DOMAIN rq : Insert(r)
    \/ \E r \in DOMAIN rq : SaveRelated(r)
    \/ \E p \in DOMAIN rq, investigator \in {NoId} \cup InvestigatorIds,
           external_investigator \in {NoId} \cup DOMAIN rq, role \in Roles :
          Quiescent /\ view.phase # "adding"
              /\ Cardinality(proposal_investigators) < MaxAdminAssignments
              /\ CreateProposalInvestigator(p, investigator, external_investigator, role)
    \/ \E row \in proposal_investigators :
          Quiescent /\ view.phase # "adding" /\ DeleteProposalInvestigator(row)
    \/ \E pk \in DOMAIN rq : Quiescent /\ RenderChangeForm(pk)
    \/ \E forms \in {i \cup n : i \in InitialFormSets(view.rendered),
                                n \in NewFormSets(extra)} :
          Quiescent /\ SubmitChangeForm(forms)

AdminSpec == AdminInit /\ [][AdminNext]_vars

\* ------------------------------------- ids without a row in the lookups
\* Requests served one after the other whose instance may name a department,
\* a project type or a funding agency that does not exist (id 3, 3, 2).
LookupInputs ==
    ProposalInputs
    \cup
    [department_id : {1, 3}, project_type_id : {1, 3}, funding_agency_id : {NoId, 1, 2},
     application_date : {NoDate}, gcir_code : {Blank}]

LookupInit ==
    /\ proposals = {}
    /\ externals = {}
    /\ locks = {}
    /\ rq = [r \in 1..MaxLookupRequests |-> IdleRequest]
    /\ proposal_investigators = {}
    /\ outcome = NoOutcome
    /\ view = NoView

LookupNext ==
    \/ \E r \in DOMAIN rq, inp \in LookupInputs :
          Quiescent /\ auto_generate_gcir_code(r, inp, FALSE)
    \/ \E r \in DOMAIN rq : Exists(r)
    \/ \E r \in DOMAIN rq : Scan(r)
    \/ \E r \in DOMAIN rq : Insert(r)

LookupSpec == LookupInit /\ [][LookupNext]_vars

\* ------------------------------------------------------------- properties
\* the allocator call of request r has returned and the request is not over
InFlight(r) == rq[r].auto /\ rq[r].pc \in {"insert", "inserted"}

\* the allocator call of request r has returned
Returned(r) == rq[r].auto /\ rq[r].pc \in {"insert", "inserted", "done", "failed", "aborted"}

SamePartition(q, r) == rq[q].kind = rq[r].kind /\ KeyOf(q) = KeyOf(r)

\* C1: two allocation calls on the same partition key that are in flight
\* together (each has returned, neither request is over) were not handed
\* the same serial, also when the partition held no record.
C1_NoSharedSerial ==
    \A q, r \in DOMAIN rq :
        (q # r /\ InFlight(q) /\ InFlight(r) /\ SamePartition(q, r))
            => rq[q].serial # rq[r].serial

\* C2: when all N creation requests were for one proposal partition, which
\* was empty at the start, and all have finished (none was cancelled), the
\* serials of the committed records of the partition are exactly 1..N.
C2_SerialsExactlyOneToN ==
    (\A r \in DOMAIN rq : /\ rq[r].pc \in {"done", "failed"}
                          /\ rq[r].kind = "proposal" /\ rq[r].auto
                          /\ KeyOf(r) = KeyOf(1))
        => {ParseInt(LastSegment(x.gcir_code)).val :
                x \in {y \in CommittedProposals : ProposalKey(y) = KeyOf(1)}} = DOMAIN rq

\* C3: no two committed Proposal rows share a gcir_code, no two committed
\* ExternalInvestigator rows share a non-null code, and a request whose
\* code is held by a committed row leaves the insert step rejected, with
\* both tables unchanged.
C3_CodesUnique ==
    /\ [](/\ \A x, y \in CommittedProposals : x.gcir_code = y.gcir_code => x = y
          /\ \A x, y \in CommittedExternals :
                (x.code # Blank /\ x.code = y.code) => x = y)
    /\ [][\A r \in DOMAIN rq :
            (/\ rq[r].pc = "insert"
             /\ rq[r].code \in HeldCodes(r, {Committed})
             /\ rq'[r].pc # "insert")
                => /\ rq'[r].pc \in {"failed", "aborted"}
                   /\ proposals' = proposals
                   /\ externals' = externals]_vars

\* a request was rejected at insert while a committed row holds its code
C3_Witness ==
    \E r \in DOMAIN rq :
        /\ rq[r].pc = "failed"
        /\ rq[r].code \in HeldCodes(r, {Committed})
        /\ Cardinality(CommittedProposals) + Cardinality(CommittedExternals) >= 2

\* C4: a request whose allocator locked and read existing rows (its serial
\* is above 1) and that has not inserted its record yet still holds locks.
C4_LockHeldUntilInsert ==
    \A r \in DOMAIN rq :
        (rq[r].auto /\ rq[r].pc = "insert" /\ rq[r].serial > 1) => LocksOf(r) # {}

\* C5: when a request with an allocated code commits, its serial is greater
\* than the serial of every allocated record of its partition committed
\* before.
C5_SerialsFollowCommitOrder ==
    [][\A r \in DOMAIN rq :
          (rq[r].auto /\ rq[r].kind = "proposal" /\ rq[r].pc # "done" /\ rq'[r].pc = "done")
              => \A x \in CommittedProposals :
                    (x.auto /\ ProposalKey(x) = KeyOf(r))
                        => ParseInt(LastSegment(x.gcir_code)).val < rq[r].serial]_vars

\* C6: two allocator invocations on the same prefix never both have their
\* serial computed while both units of work (outer transactions) are open.
C6_SecondAllocatorBlocked ==
    ~\E q, r \in DOMAIN rq :
        /\ q # r
        /\ rq[q].kind = rq[r].kind /\ PrefixOf(q) = PrefixOf(r)
        /\ rq[q].atomic /\ rq[r].atomic
        /\ InFlight(q) /\ InFlight(r)

\* the code tails the allocator of proposal request r reads
ReadTails(r) == {LastSegment(x.gcir_code) : x \in MatchingProposals(r, PrefixOf(r))}

\* C7: with requests served one after the other, a proposal allocation
\* returns 1 when no record matches the prefix and otherwise one more than
\* the greatest parsed tail of the matching records; every serial is >= 1,
\* and the r-th of r successive allocate-and-persist cycles on one
\* partition of the empty store returns r.
C7_SequentialNextSerial ==
    \A r \in DOMAIN rq :
        /\ (rq[r].kind = "proposal" /\ rq[r].auto /\ rq[r].pc = "insert")
            => /\ rq[r].serial >= 1
               /\ ReadTails(r) = {} => rq[r].serial = 1
               /\ \A t \in ReadTails(r) : ParseInt(t).ok => ParseInt(t).val < rq[r].serial
               /\ rq[r].serial > 1
                    => \E t \in ReadTails(r) : ParseInt(t).ok /\ ParseInt(t).val = rq[r].serial - 1
        /\ (/\ rq[r].kind = "proposal" /\ Returned(r)
            /\ \A q \in 1..r : /\ SamePartition(q, r) /\ rq[q].auto
                               /\ q < r => rq[q].pc = "done")
            => rq[r].serial = r

\* three successive cycles on one proposal partition gave 1, 2, 3, and the
\* next allocation, for a partition whose prefix matches no record, gave 1
C7_Witness ==
    /\ rq[3].kind = "proposal" /\ rq[3].pc = "done" /\ rq[3].serial = 3
    /\ \A q \in 1..3 : SamePartition(q, 3) /\ rq[q].auto /\ rq[q].pc = "done"
    /\ rq[4].kind = "proposal" /\ rq[4].auto /\ rq[4].pc = "insert"
    /\ ReadTails(4) = {} /\ rq[4].serial = 1

\* year, department code and project-type code of a partition key
YearDeptType(key) == SubSeq(key, 1, 3)

\* C8: with requests served one after the other, when every record of the
\* store belongs to a partition that differs from the requested one in
\* year, department code or project-type code, the allocation returns 1.
C8_IndependentPartitions ==
    \A r \in DOMAIN rq :
        (/\ rq[r].kind = "proposal" /\ rq[r].auto /\ rq[r].pc = "insert"
         /\ \A x \in VisibleProposals(r) : YearDeptType(ProposalKey(x)) # YearDeptType(KeyOf(r)))
            => rq[r].serial = 1

\* C9: with requests served one after the other, when every record of the
\* store has the year, department and project type of the requested
\* partition and differs from it in the funding agency (present vs.
\* absent), the allocation returns 1.
C9_AgencyPartitionsIndependent ==
    \A r \in DOMAIN rq :
        (/\ rq[r].kind = "proposal" /\ rq[r].auto /\ rq[r].pc = "insert"
         /\ \A x \in VisibleProposals(r) :
               /\ YearDeptType(ProposalKey(x)) = YearDeptType(KeyOf(r))
               /\ ProposalKey(x)[4] # KeyOf(r)[4])
            => rq[r].serial = 1

\* C10: an allocator invocation that is about to lock its rows never finds
\* one of them locked by a request for another partition key.
C10_NoCrossPartitionBlocking ==
    \A q, r \in DOMAIN rq :
        (q # r /\ rq[r].pc \in {"exists", "scan"} /\ ~SamePartition(q, r))
            => \A row \in Selected(r) :
                  [tbl |-> row.tbl, pk |-> row.pk, holder |-> q] \notin locks

\* C11: a creation request whose instance came with a non-empty code never
\* enters the allocator (no existence query, no scan, no serial, no row
\* lock), keeps that code on the instance, and the row it persists holds
\* exactly that code.
C11_ExplicitCodeKept ==
    \A r \in DOMAIN rq :
        rq[r].given # Blank
            => /\ rq[r].pc \notin {"exists", "scan"}
               /\ ~rq[r].auto /\ rq[r].serial = 0
               /\ LocksOf(r) = {}
               /\ rq[r].code = rq[r].given
               /\ \A x \in proposals :
                     (rq[r].kind = "proposal" /\ x.pk = r) => x.gcir_code = rq[r].given
               /\ \A x \in externals :
                     (rq[r].kind = "external" /\ x.pk = r) => x.code = rq[r].given

\* a proposal and an external investigator were persisted with the codes
\* they came with, next to records whose code the allocator made
C11_Witness ==
    /\ \E r \in DOMAIN rq, x \in CommittedProposals :
          rq[r].given # Blank /\ rq[r].pc = "done" /\ x.pk = r /\ x.gcir_code = rq[r].given
    /\ \E r \in DOMAIN rq, x \in CommittedExternals :
          rq[r].given # Blank /\ rq[r].pc = "done" /\ x.pk = r /\ x.code = rq[r].given
    /\ \E x \in CommittedProposals \cup CommittedExternals : x.auto

\* what an allocation with the fields of inp returns over the rows given
NextSerialOver(inp, rows) ==
    NextSerial({x.gcir_code : x \in {y \in rows :
        StartsWith(y.gcir_code,
                   PatternPrefix(ResolveYear(NoId, inp.application_date), inp.department_id,
                                 inp.project_type_id, inp.funding_agency_id))}})

\* C12: when a proposal with an explicit code of partition P whose tail
\* parses as k is inserted, the next serial of P becomes
\* max(k, previous maximum of P) + 1 and the next serial of every other
\* partition stays what it was.
C12_ExplicitCodeMovesOnlyItsPartition ==
    [][\A r \in DOMAIN rq :
          (/\ rq[r].kind = "proposal" /\ rq[r].given # Blank
           /\ ParseInt(LastSegment(rq[r].given)).ok
           /\ rq[r].pc = "insert" /\ rq'[r].pc = "done")
              => \A inp \in SeqProposalInputs :
                    IF ProposalKey(inp) = KeyOf(r)
                    THEN NextSerialOver(inp, proposals')
                            = Max({ParseInt(LastSegment(rq[r].given)).val,
                                   NextSerialOver(inp, proposals) - 1}) + 1
                    ELSE NextSerialOver(inp, proposals') = NextSerialOver(inp, proposals)]_vars

\* the code tails the allocator of request r reads: after the last "-" for
\* a proposal, after the leading letter for an external investigator
\* (rows without a code are passed over)
TailsRead(r) ==
    IF rq[r].kind = "proposal" THEN ReadTails(r)
    ELSE {Tail(x.code) : x \in {y \in VisibleExternals(r) : y.code # Blank}}

\* C19: with requests served one after the other, an allocation that read
\* a code whose tail does not parse still returns: its serial is one more
\* than the greatest tail that parses, and 1 when none does.
C19_UnparsableTailsSkipped ==
    \A r \in DOMAIN rq :
        (/\ rq[r].auto /\ rq[r].pc = "insert"
         /\ \E t \in TailsRead(r) : ~ParseInt(t).ok)
            => /\ rq[r].error = ""
               /\ (\A t \in TailsRead(r) : ~ParseInt(t).ok) => rq[r].serial = 1
               /\ \A t \in TailsRead(r) :
                     ParseInt(t).ok
                        => /\ ParseInt(t).val < rq[r].serial
                           /\ \E u \in TailsRead(r) :
                                 ParseInt(u).ok /\ ParseInt(u).val = rq[r].serial - 1

\* a proposal allocation over G-2025-CS-IND-00A7 alone and an
\* external-investigator allocation over E00A7 alone both returned 1
C19_Witness ==
    /\ \E r \in DOMAIN rq :
          /\ rq[r].kind = "proposal" /\ rq[r].auto /\ rq[r].pc = "done" /\ rq[r].serial = 1
          /\ \E y \in CommittedProposals :
                /\ y.pk < r /\ ProposalKey(y) = KeyOf(r)
                /\ ~ParseInt(LastSegment(y.gcir_code)).ok
    /\ \E r \in DOMAIN rq :
          /\ rq[r].kind = "external" /\ rq[r].auto /\ rq[r].pc = "insert" /\ rq[r].serial = 1
          /\ TailsRead(r) # {}

\* C20: once a request is aborted after its code was allocated, no record
\* ever holds that code (the request persisted nothing and the serial stays
\* a gap), and every allocation of the partition that returns afterwards
\* has a larger serial.
C20_AbortedSerialStaysUnused ==
    /\ [](\A r \in DOMAIN rq :
            (rq[r].pc = "aborted" /\ rq[r].auto)
                => /\ \A x \in proposals : x.pk # r
                   /\ \A x \in externals : x.pk # r
                   /\ rq[r].code \notin HeldCodes(r, {Committed} \cup DOMAIN rq))
    /\ [][\A q, r \in DOMAIN rq :
            (/\ rq[r].pc = "aborted" /\ rq[r].auto
             /\ rq[q].pc \in {"exists", "scan"} /\ rq'[q].pc = "insert"
             /\ SamePartition(q, r))
                => rq'[q].serial > rq[r].serial]_vars

\* C18: an allocation for an instance whose project type, department or
\* (supplied) funding agency has no row ends with DoesNotExist of the first
\* missing lookup, gives the instance no code and no serial, holds no lock,
\* persists nothing, and the step that raises leaves both tables and the
\* locks as they were.
C18_MissingLookupFails ==
    /\ [](\A r \in DOMAIN rq :
            (/\ rq[r].kind = "proposal" /\ rq[r].given = Blank
             /\ \/ rq[r].inst.project_type_id \notin DOMAIN ProjectTypeCode
                \/ rq[r].inst.department_id \notin DOMAIN DepartmentCode
                \/ /\ rq[r].inst.funding_agency_id # NoId
                   /\ rq[r].inst.funding_agency_id \notin DOMAIN FundingAgencyCode)
                => /\ rq[r].pc = "raised"
                   /\ rq[r].error =
                        IF rq[r].inst.project_type_id \notin DOMAIN ProjectTypeCode
                        THEN "ProjectType.DoesNotExist"
                        ELSE IF rq[r].inst.department_id \notin DOMAIN DepartmentCode
                             THEN "Department.DoesNotExist"
                             ELSE "FundingAgency.DoesNotExist"
                   /\ rq[r].code = Blank /\ rq[r].serial = 0
                   /\ LocksOf(r) = {}
                   /\ \A x \in proposals : x.pk # r)
    /\ [][\A r \in DOMAIN rq :
            (rq[r].pc # "raised" /\ rq'[r].pc = "raised")
                => proposals' = proposals /\ externals' = externals /\ locks' = locks]_vars

\* with a proposal in the store, one allocation failed on a missing
\* department and another on a missing funding agency
C18_Witness ==
    /\ CommittedProposals # {}
    /\ \E r \in DOMAIN rq : rq[r].pc = "raised" /\ rq[r].error = "Department.DoesNotExist"
    /\ \E r \in DOMAIN rq : rq[r].pc = "raised" /\ rq[r].error = "FundingAgency.DoesNotExist"

\* the role assignments of proposal p with role PI
PIsOf(p) == {x \in proposal_investigators : x.proposal = p /\ x.role = "PI"}

\* C13: validation of a persisted proposal passes exactly when the proposal
\* has one role assignment with role PI, and raises a validation error
\* otherwise (no PI, or two and more), whatever the kind of the PI and the
\* number of Co-PIs.
C13_ValidationIffOnePI ==
    (outcome.op = "clean" /\ outcome.proposal # NoId)
        => /\ outcome.error = "" <=> Cardinality(PIsOf(outcome.proposal)) = 1
           /\ outcome.error \in {"", "ValidationError"}

\* validation passed for a proposal with an external PI and two Co-PIs
C13_Witness ==
    /\ outcome.op = "clean" /\ outcome.proposal # NoId /\ outcome.error = ""
    /\ \E x \in PIsOf(outcome.proposal) : x.external_investigator # NoId
    /\ Cardinality({x \in proposal_investigators :
                        x.proposal = outcome.proposal /\ x.role = "CO_PI"}) = 2

\* C14: a validation that fails for want of a PI and one that fails for
\* several PIs raise the same class of error with different messages.
C14_DistinctMessages ==
    [][(/\ outcome.op = "clean" /\ outcome.proposal # NoId
        /\ PIsOf(outcome.proposal) = {}
        /\ outcome'.op = "clean" /\ outcome'.proposal # NoId
        /\ Cardinality(PIsOf(outcome'.proposal)) > 1
        /\ proposal_investigators' = proposal_investigators)
            => /\ outcome.error = "ValidationError"
               /\ outcome'.error = "ValidationError"
               /\ outcome'.message # outcome.message]_vars

\* C15: validation of a proposal instance that was never saved passes,
\* whatever the ProposalInvestigator table holds.
C15_UnsavedProposalPasses ==
    (outcome.op = "clean" /\ outcome.proposal = NoId) => outcome.error = ""

\* validation of an unsaved instance passed while the table holds role
\* assignments and a persisted proposal has no PI
C15_Witness ==
    /\ outcome.op = "clean" /\ outcome.proposal = NoId /\ outcome.error = ""
    /\ proposal_investigators # {}
    /\ \E x \in CommittedProposals : PIsOf(x.pk) = {}

\* C16: every persisted role assignment has exactly one of investigator and
\* external_investigator, and a write that is refused with IntegrityError
\* leaves the table (hence every PI count) as it was.
C16_ExactlyOneInvestigatorKind ==
    /\ [](\A x \in proposal_investigators :
            (x.investigator = NoId) # (x.external_investigator = NoId))
    /\ [][outcome'.error = "IntegrityError"
            => proposal_investigators' = proposal_investigators]_vars

\* an assignment with neither or both references was refused on a
\* proposal that has a PI
C16_Witness ==
    /\ outcome.op = "create" /\ outcome.error = "IntegrityError"
    /\ outcome.message = "either_internal_or_external_investigator"
    /\ PIsOf(outcome.proposal) # {}

\* C17: no proposal has two role assignments of the same internal
\* investigator, or two of the same external investigator, whatever their
\* roles; an internal and an external investigator with the same id may
\* both be assigned.
C17_OneAssignmentPerInvestigator ==
    \A x, y \in proposal_investigators :
        (/\ x.proposal = y.proposal
         /\ \/ x.investigator # NoId /\ x.investigator = y.investigator
            \/ /\ x.external_investigator # NoId
               /\ x.external_investigator = y.external_investigator)
            => x = y

\* a second assignment of an internal investigator was refused while the
\* proposal also holds the external investigator with the same id
C17_Witness ==
    /\ outcome.op = "create" /\ outcome.error = "IntegrityError"
    /\ outcome.message = "unique_internal_investigator_per_proposal"
    /\ \E x, y \in proposal_investigators :
          /\ x.proposal = outcome.proposal /\ y.proposal = outcome.proposal
          /\ x.investigator # NoId /\ y.external_investigator = x.investigator

\* the row of the record request r saves again
SavedRow(r) ==
    IF rq[r].kind = "proposal" THEN {x \in proposals : x.pk = rq[r].pk}
    ELSE {x \in externals : x.pk = rq[r].pk}

\* C21: a save of an already persisted Proposal or ExternalInvestigator,
\* also with changed partition fields or with an empty code, never enters
\* the allocator (no existence query, no scan, no serial, no lock), leaves
\* the code of the instance as it came, adds no row, and the row it writes
\* holds the code the instance came with.
C21_PersistedRecordNeverReallocated ==
    /\ [](\A r \in DOMAIN rq :
            rq[r].pk # NoId
                => /\ rq[r].pc \notin {"exists", "scan"}
                   /\ ~rq[r].auto /\ rq[r].serial = 0
                   /\ LocksOf(r) = {}
                   /\ rq[r].code = rq[r].given)
    /\ [][\A r \in DOMAIN rq :
            (rq[r].pk # NoId /\ rq'[r] # rq[r])
                => /\ Cardinality(proposals') = Cardinality(proposals)
                   /\ Cardinality(externals') = Cardinality(externals)
                   /\ rq'[r].pc = "done"
                        => /\ \A x \in proposals' :
                                 (rq[r].kind = "proposal" /\ x.pk = rq[r].pk)
                                    => x.gcir_code = rq[r].given
                           /\ \A x \in externals' :
                                 (rq[r].kind = "external" /\ x.pk = rq[r].pk)
                                    => x.code = rq[r].given]_vars

\* a proposal created with an allocated code was saved again with another
\* funding agency and an empty code, and its row now has no code
C21_Witness ==
    \E r \in DOMAIN rq, x \in proposals :
        /\ rq[r].kind = "proposal" /\ rq[r].pk = x.pk /\ rq[r].pc = "done"
        /\ rq[r].given = Blank /\ x.gcir_code = Blank
        /\ rq[x.pk].auto /\ rq[x.pk].pc = "done"
        /\ rq[x.pk].inst.funding_agency_id # x.funding_agency_id

\* what an allocation for year y of the CS/IND partition without agency
\* returns over the rows given
NextSerialOfYear(y, rows) ==
    NextSerial({x.gcir_code : x \in {z \in rows :
        StartsWith(z.gcir_code, PatternPrefix(y, 1, 1, NoId))}})

\* C22: the code of an allocation carries the explicit year when one was
\* given, else the year of the application date when one was given, else
\* the current year; and a proposal created through the handler with an
\* application date of a past year gets the next serial of that year's
\* sequence and leaves the next serial of the current year what it was.
C22_YearResolutionOrder ==
    /\ [](\A r \in DOMAIN rq :
            (rq[r].kind = "proposal" /\ rq[r].auto /\ rq[r].pc \in {"insert", "done", "failed"})
                => /\ rq[r].year # NoId
                        => StartsWith(rq[r].code, <<"G", "-">> \o Digits(rq[r].year) \o <<"-">>)
                   /\ (rq[r].year = NoId /\ rq[r].inst.application_date # NoDate)
                        => StartsWith(rq[r].code,
                                      <<"G", "-">> \o Digits(rq[r].inst.application_date[1])
                                          \o <<"-">>)
                   /\ (rq[r].year = NoId /\ rq[r].inst.application_date = NoDate)
                        => StartsWith(rq[r].code, <<"G", "-">> \o Digits(CurrentYear) \o <<"-">>))
    /\ [][\A r \in DOMAIN rq :
            (/\ rq[r].kind = "proposal" /\ rq[r].auto /\ rq[r].year = NoId
             /\ rq[r].inst.application_date # NoDate
             /\ rq[r].inst.application_date[1] < CurrentYear
             /\ rq[r].pc = "insert" /\ rq'[r].pc = "done")
                => /\ rq[r].serial = NextSerialOfYear(rq[r].inst.application_date[1], proposals)
                   /\ NextSerialOfYear(rq[r].inst.application_date[1], proposals')
                         = rq[r].serial + 1
                   /\ NextSerialOfYear(CurrentYear, proposals')
                         = NextSerialOfYear(CurrentYear, proposals)]_vars

\* a call with year 2023 and a date in 2024 gave a code of 2023, a creation
\* with a date in 2024 was persisted with a code of 2024 while the store held
\* a code of this year, and this year's next serial after it is still 2
C22_Witness ==
    /\ \E r \in DOMAIN rq :
          /\ rq[r].year = 2023 /\ rq[r].inst.application_date # NoDate /\ rq[r].pc = "done"
          /\ StartsWith(rq[r].code, <<"G", "-", "2", "0", "2", "3", "-">>)
    /\ \E q, r \in DOMAIN rq :
          /\ q < r
          /\ rq[q].kind = "proposal" /\ rq[q].auto /\ rq[q].pc = "done"
          /\ rq[q].year = NoId /\ rq[q].inst.application_date = NoDate
          /\ rq[r].kind = "proposal" /\ rq[r].auto /\ rq[r].pc = "done"
          /\ rq[r].year = NoId /\ rq[r].inst.application_date # NoDate
          /\ StartsWith(rq[r].code, <<"G", "-", "2", "0", "2", "4", "-">>)
    /\ NextSerialOfYear(CurrentYear, proposals) = 2

\* the integer tails, after the first character, of the codes of the
\* external investigators that have one
IntegerTails(rows) ==
    {ParseInt(Tail(x.code)).val : x \in {y \in rows : y.code # Blank /\ ParseInt(Tail(y.code)).ok}}

\* C23: with requests served one after the other, an external-investigator
\* allocation returns E0001 on an empty store; when some record has a code
\* with an integer tail it returns E followed by the greatest such tail
\* plus one, whatever the number of records without a code; every record
\* is read, there is one sequence.
C23_ExternalGlobalSequence ==
    \A r \in DOMAIN rq :
        (rq[r].kind = "external" /\ rq[r].auto /\ rq[r].pc = "insert")
            => /\ externals = {} => rq[r].code = <<"E", "0", "0", "0", "1">>
               /\ IntegerTails(externals) # {}
                    => /\ rq[r].serial = Max(IntegerTails(externals)) + 1
                       /\ rq[r].code[1] = "E"
                       /\ ParseInt(Tail(rq[r].code)) = [ok |-> TRUE, val |-> rq[r].serial]
               /\ (externals # {} /\ IntegerTails(externals) = {})
                    => rq[r].code = <<"E", "0", "0", "0", "1">>

\* over a store holding E0007 and an external investigator whose code was
\* emptied, the allocation returned E0008
C23_Witness ==
    \E r \in DOMAIN rq :
        /\ rq[r].kind = "external" /\ rq[r].auto /\ rq[r].pc = "insert"
        /\ rq[r].code = <<"E", "0", "0", "0", "8">>
        /\ \E x \in externals : x.code = Blank
        /\ \E x \in externals : x.code = <<"E", "0", "0", "0", "7">>

\* the serial part of the code request r holds
SerialTail(r) == IF rq[r].kind = "proposal" THEN LastSegment(rq[r].code) ELSE Tail(rq[r].code)

\* C24: the code of an allocation ends with its serial, zero-padded to
\* exactly four digits up to 9999 and written with all its digits and no
\* padding from 10000 on; the allocation raises nothing; parsing the tail
\* gives back the serial; and the serial is one more than the numerically
\* greatest tail read (10000 after 9999, 10001 after 10000).
C24_SerialFormatRoundTrip ==
    \A r \in DOMAIN rq :
        (rq[r].auto /\ rq[r].pc \in {"insert", "done", "failed"})
            => /\ rq[r].serial >= 1
               /\ ParseInt(SerialTail(r)) = [ok |-> TRUE, val |-> rq[r].serial]
               /\ rq[r].serial <= 9999 => Len(SerialTail(r)) = 4
               /\ rq[r].serial >= 10000
                    => /\ SerialTail(r)[1] # "0"
                       /\ Len(SerialTail(r)) >= 5
               /\ rq[r].pc = "insert"
                    => /\ rq[r].error = ""
                       /\ \A t \in TailsRead(r) :
                             ParseInt(t).ok => ParseInt(t).val < rq[r].serial
                       /\ (\E t \in TailsRead(r) : ParseInt(t).ok)
                             => \E t \in TailsRead(r) :
                                   ParseInt(t).ok /\ ParseInt(t).val = rq[r].serial - 1

\* after a proposal with the explicit tail 9999 the allocations gave 10000
\* and then 10001, written with five digits, next to an external
\* investigator with the padded code E0001
C24_Witness ==
    /\ \E q, r \in DOMAIN rq :
          /\ rq[q].kind = "proposal" /\ rq[q].auto /\ rq[q].pc = "done" /\ rq[q].serial = 10000
          /\ rq[r].kind = "proposal" /\ rq[r].auto /\ rq[r].pc = "done" /\ rq[r].serial = 10001
          /\ SerialTail(r) = <<"1", "0", "0", "0", "1">>
    /\ \E r \in DOMAIN rq :
          /\ rq[r].kind = "external" /\ rq[r].auto /\ rq[r].pc = "done"
          /\ rq[r].code = <<"E", "0", "0", "0", "1">>

\* C25: a creation without a code has its code allocated before the insert,
\* and the row it inserts carries it: for a proposal "G-", the year of its
\* application date (the current year without one), its department code,
\* its project-type code, its funding-agency code if it has an agency, and
\* the serial; for an external investigator "E" and the serial.
C25_CreationCarriesAllocatedCode ==
    /\ [](\A r \in DOMAIN rq :
            (rq[r].pk = NoId /\ rq[r].given = Blank /\ rq[r].pc = "insert")
                => rq[r].auto /\ rq[r].code # Blank /\ rq[r].serial >= 1)
    /\ [][\A r \in DOMAIN rq :
            (/\ rq[r].pk = NoId /\ rq[r].given = Blank
             /\ rq[r].pc = "insert" /\ rq'[r].pc = "done")
                => IF rq[r].kind = "proposal"
                   THEN \E x \in proposals' \ proposals :
                          /\ proposals' = proposals \cup {x}
                          /\ x.pk = r
                          /\ x.gcir_code =
                                <<"G", "-">>
                                \o Digits(IF x.application_date # NoDate
                                          THEN x.application_date[1] ELSE CurrentYear)
                                \o <<"-">> \o DepartmentCode[x.department_id]
                                \o <<"-">> \o ProjectTypeCode[x.project_type_id]
                                \o (IF x.funding_agency_id # NoId
                                    THEN <<"-">> \o FundingAgencyCode[x.funding_agency_id]
                                    ELSE <<>>)
                                \o <<"-">> \o LastSegment(x.gcir_code)
                          /\ ParseInt(LastSegment(x.gcir_code))
                                = [ok |-> TRUE, val |-> rq[r].serial]
                   ELSE \E x \in externals' \ externals :
                          /\ externals' = externals \cup {x}
                          /\ x.pk = r
                          /\ x.code = <<"E">> \o Tail(x.code)
                          /\ ParseInt(Tail(x.code)) = [ok |-> TRUE, val |-> rq[r].serial]]_vars

\* a proposal with a funding agency and an application date in 2024 and an
\* external investigator, both created without a code, are persisted with
\* G-2024-CS-IND-NSF-0001 and E0001
C25_Witness ==
    /\ \E r \in DOMAIN rq, x \in CommittedProposals :
          /\ rq[r].pk = NoId /\ rq[r].given = Blank /\ rq[r].pc = "done" /\ x.pk = r
          /\ x.funding_agency_id # NoId /\ x.application_date # NoDate
          /\ x.gcir_code = <<"G", "-", "2", "0", "2", "4", "-", "C", "S", "-", "I", "N", "D", "-",
                              "N", "S", "F", "-", "0", "0", "0", "1">>
    /\ \E r \in DOMAIN rq, x \in CommittedExternals :
          /\ rq[r].pk = NoId /\ rq[r].given = Blank /\ rq[r].pc = "done" /\ x.pk = r
          /\ x.code = <<"E", "0", "0", "0", "1">>

\* C26: a creation request gets a serial only from a read under locks (no
\* selected row is held by another request when the allocator returns) and
\* gets one at most once; when the lock wait ends in an error or the insert
\* is refused by the unique column, the request fails with that error, its
\* serial and code stay what they were, no row of it is or ever becomes
\* persisted, it holds no lock, and it takes no further step.
C26_NoRetryNoUnlockedRead ==
    /\ [](\A r \in DOMAIN rq :
            rq[r].pc = "failed"
                => /\ rq[r].error \in {"OperationalError", "IntegrityError"}
                   /\ \A x \in proposals : ~(rq[r].kind = "proposal" /\ x.pk = r)
                   /\ \A x \in externals : ~(rq[r].kind = "external" /\ x.pk = r)
                   /\ LocksOf(r) = {})
    /\ [][\A r \in DOMAIN rq :
            /\ rq[r].pc = "failed" => rq'[r] = rq[r]
            /\ rq[r].serial # 0 => rq'[r].serial = rq[r].serial /\ rq'[r].code = rq[r].code
            /\ (rq[r].pc \in {"exists", "scan"} /\ rq'[r].pc = "insert")
                  => \A row \in Selected(r) : ~LockedByOther(r, row)
            /\ (Blocked(r) /\ rq'[r] # rq[r])
                  => rq'[r].pc = "failed" /\ rq'[r].error = "OperationalError"
            /\ (rq[r].pc = "insert" /\ ~InsertWaits(r) /\ UniqueViolation(r) /\ rq'[r] # rq[r])
                  => rq'[r].pc \in {"failed", "aborted"}]_vars

\* a request whose lock wait ended in an error has failed without a serial
\* while the request that held the lock went on to persist its record
C26_Witness ==
    \E q, r \in DOMAIN rq :
        /\ rq[r].pc = "failed" /\ rq[r].error = "OperationalError" /\ rq[r].serial = 0
        /\ rq[q].atomic /\ rq[q].pc = "done" /\ rq[q].serial = 2 /\ SamePartition(q, r)

\* C27: over creations and deletions served one after the other, a serial
\* returned by an allocation is greater than every serial returned before
\* for the same partition, whether or not the record that got it still
\* exists.
C27_SerialsIncreaseAcrossDeletes ==
    [][\A q, r \in DOMAIN rq :
          (/\ q # r /\ rq[q].auto /\ rq[q].serial # 0 /\ SamePartition(q, r)
           /\ rq[r].pc \in {"exists", "scan"} /\ rq'[r].pc = "insert")
              => rq'[r].serial > rq[q].serial]_vars

\* C28: a single create or delete of a role assignment never raises a
\* validation error: it is accepted or refused by one of the three table
\* constraints, none of which counts PIs; a validation error is only ever
\* the outcome of an explicit call of the proposal's validation.  (That a
\* PI count other than 1 is reached by accepted writes is C28_Witness.)
C28_WritesNeverCheckPIRule ==
    /\ outcome.op \in {"create", "delete"}
          => /\ outcome.error \in {"", "IntegrityError"}
             /\ outcome.error = "IntegrityError"
                  => outcome.message \in {"either_internal_or_external_investigator",
                                          "unique_internal_investigator_per_proposal",
                                          "unique_external_investigator_per_proposal"}
             /\ outcome.op = "delete" => outcome.error = ""
    /\ outcome.error = "ValidationError"
          => /\ outcome.op = "clean"
             /\ PICount(outcome.proposal, proposal_investigators) # 1

\* the last create was accepted and left its proposal with two PIs, while
\* another persisted proposal has an assignment and no PI
C28_Witness ==
    /\ outcome.op = "create" /\ outcome.error = ""
    /\ PICount(outcome.proposal, proposal_investigators) = 2
    /\ \E x \in proposal_investigators :
          x.proposal # outcome.proposal /\ PICount(x.proposal, proposal_investigators) = 0

\* a POST of the add page or of the change page was answered in this step
Answered == view' # view /\ view'.phase \in {"rejected", "failed", "saved"}

\* the validation of a POST went through in this step
Validated ==
    \/ view.phase # "adding" /\ view'.phase = "adding"
    \/ view.phase = "rendered" /\ view'.phase \in {"failed", "saved"}

\* C29: a POST of the proposal's role-assignment forms passes validation
\* only when exactly one of the forms not marked for deletion has role PI;
\* a POST with another count is answered with a validation error and leaves
\* the table of assignments as it was; and after every accepted POST the
\* proposal has exactly one PI in the table.
C29_AcceptedBatchLeavesOnePI ==
    [][/\ Validated => view'.pi_count = 1
       /\ (Answered /\ view'.pi_count # 1)
            => /\ view'.phase = "rejected"
               /\ outcome'.error = "ValidationError"
               /\ proposal_investigators' = proposal_investigators
       /\ (Answered /\ view'.phase = "rejected")
            => /\ outcome'.error = "ValidationError"
               /\ proposal_investigators' = proposal_investigators
       /\ (Answered /\ view'.phase = "saved")
            => PICount(view'.proposal, proposal_investigators') = 1]_vars

\* the forms the POST answered in this step may have carried
FormsOfPost ==
    IF view.phase = "adding" THEN {view.forms}
    ELSE {i \cup n : i \in InitialFormSets(view.rendered), n \in NewFormSets(extra)}

\* C30: when the save-completion hook has run, the table holds the batch as
\* the forms gave it (rows of forms marked DELETE gone, the other rows with
\* the role of their form, one row per new form, every other row as it
\* was), the message issued is the one for the PI count of the table after
\* that (warning for 0, error for more than 1, success for 1), and with a
\* count other than 1 the request still ends without an exception and the
\* proposal stays persisted.
C30_HookOnlyReports ==
    [][(Answered /\ view'.phase = "saved")
          => /\ \E forms \in FormsOfPost :
                   /\ FormsetPICount(forms) = view'.pi_count
                   /\ proposal_investigators'
                        = FormsetSaveExisting(proposal_investigators, forms)
                          \cup FormsetNewObjects(view'.proposal, forms)
             /\ outcome'.error = ""
             /\ outcome'.message
                  = (IF PICount(view'.proposal, proposal_investigators') = 0 THEN "warning"
                     ELSE IF PICount(view'.proposal, proposal_investigators') > 1 THEN "error"
                     ELSE "success")
             /\ \E x \in proposals' : x.pk = view'.proposal /\ x.txn = Committed]_vars

\* a POST of the change page was saved and answered with the error message:
\* the proposal has two PIs, the one the batch made and one written
\* separately
C30_Witness ==
    /\ view.phase = "saved" /\ outcome.op = "change" /\ outcome.error = ""
    /\ outcome.message = "error" /\ view.pi_count = 1
    /\ PICount(view.proposal, proposal_investigators) = 2

\* the Proposal row of request r is inserted in this step
Persisted(r) == (\E x \in proposals' : x.pk = r) /\ ~(\E x \in proposals : x.pk = r)

\* C31: in a creation request of the add page the code is allocated before
\* the Proposal row is inserted (the row carries the allocator's code and
\* has no assignment yet), every assignment is written for a proposal whose
\* row was there before the write, and the PIs of the table are counted
\* only in the step that has written the batch: the request reports
\* nothing before, and the level it reports is the one of the count over
\* the table with the batch in it.
C31_CreationStepsInOrder ==
    /\ [](\A a \in proposal_investigators :
             \E x \in proposals : x.pk = a.proposal /\ x.gcir_code # Blank)
    /\ [][/\ \A r \in DOMAIN rq :
               Persisted(r)
                 => /\ rq[r].pc = "insert" /\ rq[r].auto /\ rq[r].serial > 0
                    /\ rq[r].code = AllocatedCode(r, rq[r].serial)
                    /\ \E x \in proposals' : x.pk = r /\ x.gcir_code = rq[r].code
                    /\ ~(\E a \in proposal_investigators' : a.proposal = r)
          /\ \A a \in proposal_investigators' \ proposal_investigators :
               \E x \in proposals : x.pk = a.proposal
          /\ (view.phase = "adding" /\ view'.phase = "adding") => outcome' = outcome
          /\ (view.phase = "adding" /\ view'.phase = "saved")
               => /\ rq[view'.proposal].pc = "inserted"
                  /\ FormsetNewObjects(view'.proposal, view.forms)
                        \subseteq proposal_investigators'
                  /\ outcome'.op = "add"
                  /\ outcome'.message
                       = (IF PICount(view'.proposal, proposal_investigators') = 0
                          THEN "warning"
                          ELSE IF PICount(view'.proposal, proposal_investigators') > 1
                               THEN "error" ELSE "success")]_vars

\* an add request has ended: the second proposal of the CS/IND partition is
\* persisted with the code the allocator gave it, its PI is in the table and
\* the count taken after the batch was reported as 1
C31_Witness ==
    /\ view.phase = "saved" /\ outcome.op = "add" /\ outcome.message = "success"
    /\ rq[view.proposal].pc = "done" /\ rq[view.proposal].serial = 2
    /\ \E x \in CommittedProposals :
          x.pk = view.proposal /\ x.gcir_code = rq[view.proposal].code
    /\ \E a \in proposal_investigators : a.proposal = view.proposal /\ a.role = "PI"

\* C32: a POST of the change page of a proposal that has not exactly one PI
\* in the table when the request arrives is refused with the message of
\* Proposal.clean and writes nothing, whatever the submitted forms are; a
\* POST of the add page is never refused with that message.
C32_ProposalValidatedBeforeBatch ==
    [][/\ (Answered /\ outcome'.op = "change"
             /\ PICount(view.proposal, proposal_investigators) # 1)
            => /\ view'.phase = "rejected"
               /\ outcome'.error = "ValidationError"
               /\ outcome'.message
                    = ProposalClean(view.proposal, proposal_investigators).message
               /\ outcome'.message \in {NoPIMessage, SeveralPIsMessage}
               /\ proposal_investigators' = proposal_investigators
               /\ proposals' = proposals
       /\ (outcome' # outcome /\ outcome'.op = "add")
            => outcome'.message \notin {NoPIMessage, SeveralPIsMessage}
       /\ (view.phase # "adding" /\ view'.phase = "adding")
            => ProposalClean(NoId, proposal_investigators) = Passed]_vars

\* the change page of a proposal without a persisted PI was posted with one
\* PI among its forms and was refused with the message of Proposal.clean
C32_Witness ==
    /\ view.phase = "rejected" /\ outcome.op = "change"
    /\ outcome.error = "ValidationError" /\ outcome.message = NoPIMessage
    /\ view.pi_count = 1
    /\ PICount(view.proposal, proposal_investigators) = 0
    /\ \E x \in CommittedProposals : x.pk = view.proposal

\* the allocator call of request r returns in this step
Returns(r) == rq[r].pc \in {"exists", "scan"} /\ rq'[r].pc = "insert"

\* the rows of the table of request q that were inserted after the call of q
\* and before the call of r (calls are made one after the other and a row
\* has the number of the request that inserted it)
PersistedBetween(q, r) ==
    IF rq[q].kind = "proposal" THEN {x \in proposals : q < x.pk /\ x.pk < r}
    ELSE {x \in externals : q < x.pk /\ x.pk < r}

\* C33: from its arrival to its return an allocator call leaves both tables
\* as they are and, called in autocommit mode, holds no row lock once it
\* has returned; and two calls for the same partition that persisted
\* nothing, with no row inserted between them, returned the same code.
C33_AllocationReservesNothing ==
    /\ [](\A q, r \in DOMAIN rq :
             (/\ q < r
              /\ rq[q].pc = "returned" /\ rq[r].pc = "returned"
              /\ rq[q].kind = rq[r].kind /\ KeyOf(q) = KeyOf(r)
              /\ PersistedBetween(q, r) = {})
                => rq[q].code = rq[r].code)
    /\ [][\A r \in DOMAIN rq :
            /\ (\/ (rq[r].pc = "idle" /\ rq'[r].pc = "exists")
                \/ (rq[r].pc = "exists" /\ rq'[r].pc = "scan")
                \/ Returns(r)
                \/ (rq[r].pc # "returned" /\ rq'[r].pc = "returned"))
                  => (proposals' = proposals /\ externals' = externals)
            /\ Returns(r) => {l \in locks' : l.holder = r} = {}]_vars

\* after a proposal was created, two calls for its partition returned
\* without a creation: both got the serial 2
C33_Witness ==
    \E q, r \in DOMAIN rq :
        /\ q < r
        /\ rq[q].pc = "returned" /\ rq[r].pc = "returned"
        /\ rq[q].kind = "proposal" /\ rq[r].kind = "proposal"
        /\ KeyOf(q) = KeyOf(r)
        /\ rq[q].code = rq[r].code /\ rq[q].serial = 2
        /\ \E x \in CommittedProposals : x.pk < q /\ StartsWith(x.gcir_code, PrefixOf(q))

\* C34: a call of Proposal.clean, passing or failing, leaves the tables of
\* proposals, external investigators and role assignments as they are; and
\* as long as nothing was written after a call, its outcome is the one
\* another call on the same proposal gives.
C34_ValidationReadOnly ==
    /\ [](outcome.op = "clean"
            => /\ outcome.error
                   = ProposalClean(outcome.proposal, proposal_investigators).error
               /\ outcome.message
                   = ProposalClean(outcome.proposal, proposal_investigators).message)
    /\ [][(outcome'.op = "clean" /\ outcome' # outcome)
            => /\ proposal_investigators' = proposal_investigators
               /\ proposals' = proposals
               /\ externals' = externals]_vars

\* the validation of a proposal with two PIs and a co-investigator has
\* failed and the three assignments are in the table
C34_Witness ==
    /\ outcome.op = "clean" /\ outcome.error = "ValidationError"
    /\ PICount(outcome.proposal, proposal_investigators) = 2
    /\ Cardinality({x \in proposal_investigators : x.proposal = outcome.proposal}) = 3
    /\ \E x \in CommittedProposals : x.pk = outcome.proposal

\* request r has ended: its record is committed, or an exception ended it
Finished(r) == rq[r].pc \in {"done", "failed", "aborted", "raised"}

====
